---- MODULE Spec2Model ----
(***************************************************************************)
(* A model of the TLA+ interpreter of tla-web (js/eval.js, the second and  *)
(* effective copy of the definitions, and js/app.js).                      *)
(*                                                                         *)
(* TLA values are records tagged by `kind`; arrays are sequences, so the   *)
(* stored order of a set's elements and of a function's domain is part of  *)
(* the value, as it is in the JavaScript objects.                          *)
(***************************************************************************)
EXTENDS Integers, Sequences, FiniteSets, Bags, TLC

VARIABLES vop, vin, vout, pc, initStatesOrig, stateQueue, seenStatesHashSet,
          reachableStates, edges

modelVars == <<vop, vin, vout, pc, initStatesOrig, stateQueue, seenStatesHashSet,
               reachableStates, edges>>

(***************************************************************************)
(* Bounds of the model.                                                    *)
(***************************************************************************)
MaxInt == 2        \* integer literals are 1..MaxInt
MaxTupleLen == 3   \* length of a tuple of atoms
MaxSetLen == 2     \* number of elements of a set of atoms, or of a function's domain
MaxNestLen == 2    \* number of elements of a set of sets, tuples and functions
MaxCount == 2      \* the bound of the counter x in the enumerated modules
MaxUpdates == 2    \* number of updates of an EXCEPT
MaxDisjuncts == 2  \* number of disjuncts of a disjunction list
MaxUnits == 3      \* number of declarations and definitions of a module
MaxConjuncts == 3  \* number of conjuncts of a conjunction list
MaxBounds == 2     \* number of bounds of a quantifier as written
MaxIdents == 2     \* number of identifiers of a bound as written

(***************************************************************************)
(* JavaScript's null and undefined.                                        *)
(***************************************************************************)
Null == [kind |-> "null"]
Undefined == [kind |-> "undefined"]

(***************************************************************************)
(* Generic sequence helpers (lodash / Array.prototype).                    *)
(***************************************************************************)
Range(s) == {s[i] : i \in 1..Len(s)}

RECURSIVE Concat(_)
Concat(ss) == IF ss = <<>> THEN <<>> ELSE Head(ss) \o Concat(Tail(ss))

(***************************************************************************)
(* hashSum, taken as an injective function into strings.  A hash is a      *)
(* sequence of naturals: a marker, the type hashed, and the content        *)
(* (length-prefixed for arrays, which makes the encoding injective).       *)
(* Strings are ordered lexicographically, as Array.prototype.sort() does.  *)
(***************************************************************************)
hashSumNum(n) == <<0, 1, n>>
hashSumBool(b) == <<0, 2, IF b THEN 1 ELSE 0>>
hashSumStr(chars) == <<0, 4>> \o chars
hashSumNaN == <<0, 5>>
hashSumArr(fps) ==
    <<0, 3, Len(fps)>> \o Concat([i \in 1..Len(fps) |-> <<Len(fps[i])>> \o fps[i]])

\* The characters of the strings the model uses: the string literals and
\* the names of the variables with their primed forms.
StrChars(s) ==
    CASE s = "" -> <<>>
      [] s = "a" -> <<97>>
      [] s = "b" -> <<98>>
      [] s = "c" -> <<99>>
      [] s = "x" -> <<120>>
      [] s = "y" -> <<121>>
      [] s = "x'" -> <<120, 39>>
      [] s = "y'" -> <<121, 39>>
      [] OTHER -> <<63>>

RECURSIVE StrLess(_, _)
StrLess(s, t) ==
    IF t = <<>> THEN FALSE
    ELSE IF s = <<>> THEN TRUE
    ELSE IF Head(s) # Head(t) THEN Head(s) < Head(t)
    ELSE StrLess(Tail(s), Tail(t))

\* The place of key k in the sorted key sequence ks, after its equals.
RECURSIVE InsertAt(_, _)
InsertAt(k, ks) ==
    IF ks = <<>> THEN 1
    ELSE IF StrLess(k, Head(ks)) THEN 1
    ELSE 1 + InsertAt(k, Tail(ks))

InsertSeq(s, i, x) == SubSeq(s, 1, i - 1) \o <<x>> \o SubSeq(s, i, Len(s))

\* A stable sort of 1..Len(keys) by the string keys: the order in which a
\* stable sort by `<` on strings leaves the positions.
RECURSIVE SortIdx(_)
SortIdx(keys) ==
    IF keys = <<>> THEN <<>>
    ELSE LET n == Len(keys)
             init == SortIdx(SubSeq(keys, 1, n - 1))
             at == InsertAt(keys[n], [i \in 1..Len(init) |-> keys[init[i]]])
         IN  InsertSeq(init, at, n)

SortByKeys(s, keys) == LET idx == SortIdx(keys) IN [i \in 1..Len(s) |-> s[idx[i]]]

\* Array.prototype.sort() on an array of strings.
sort(fps) == SortByKeys(fps, fps)

(***************************************************************************)
(* Value constructors.                                                     *)
(***************************************************************************)
IntValue(n) == [kind |-> "int", val |-> n]
BoolValue(b) == [kind |-> "bool", val |-> b]
StringValue(s) == [kind |-> "str", val |-> s]
TupleValue(elems) == [kind |-> "tuple", elems |-> elems]
FcnRcdValue(domain, values, isRecord) ==
    [kind |-> "fcn", domain |-> domain, values |-> values, isRecord |-> isRecord]

IsTLAValue(v) == v.kind \in {"int", "bool", "str", "set", "tuple", "fcn"}

\* An IntValue made from NaN, and a BoolValue made from a JavaScript value
\* that is not a boolean (the number of an IntValue, the string of a
\* StringValue).
NaNValue == [kind |-> "int", nan |-> TRUE]
isNaN(v) == "nan" \in DOMAIN v
BoolValueOf(v) == IF v.kind = "bool" THEN v ELSE [kind |-> "bool", jsval |-> v]

\* TupleValue.toFcnRcd: the function with domain 1..n.
toFcnRcd(t) == FcnRcdValue([i \in 1..Len(t.elems) |-> IntValue(i)], t.elems, FALSE)

RECURSIVE fingerprint(_)

\* SetValue.fingerprint with the sort left out.
SetValue_fingerprint_unsorted(v) ==
    hashSumArr([i \in 1..Len(v.elems) |-> fingerprint(v.elems[i])])

SetValue_fingerprint(v) ==
    hashSumArr(sort([i \in 1..Len(v.elems) |-> fingerprint(v.elems[i])]))

FcnRcdValue_fingerprint(v) ==
    LET domFps == [i \in 1..Len(v.domain) |-> fingerprint(v.domain[i])]
        valsFp == [i \in 1..Len(v.values) |-> fingerprint(v.values[i])]
        fcnPairsHashed == [i \in 1..Len(domFps) |-> hashSumArr(<<domFps[i], valsFp[i]>>)]
    IN  hashSumArr(sort(fcnPairsHashed))

\* hashSum(this.val), whatever JavaScript value this.val is.
hashSumVal(v) ==
    CASE v.kind = "int" -> IF isNaN(v) THEN hashSumNaN ELSE hashSumNum(v.val)
      [] v.kind = "str" -> hashSumStr(StrChars(v.val))
      [] v.kind = "bool" -> hashSumBool(v.val)

fingerprint(v) ==
    CASE v.kind = "int" -> hashSumVal(v)
      [] v.kind = "bool" -> IF "val" \in DOMAIN v THEN hashSumVal(v) ELSE hashSumVal(v.jsval)
      [] v.kind = "str" -> StrChars(v.val)
      [] v.kind = "set" -> SetValue_fingerprint(v)
      [] v.kind = "tuple" -> FcnRcdValue_fingerprint(toFcnRcd(v))
      [] v.kind = "fcn" -> FcnRcdValue_fingerprint(v)

\* _.uniqBy(elems, e => e.fingerprint()): the first of each fingerprint, in order.
RECURSIVE uniqByFingerprint(_)
uniqByFingerprint(elems) ==
    IF elems = <<>> THEN <<>>
    ELSE LET init == uniqByFingerprint(SubSeq(elems, 1, Len(elems) - 1))
             last == elems[Len(elems)]
         IN  IF \E i \in 1..Len(init) : fingerprint(init[i]) = fingerprint(last)
             THEN init ELSE Append(init, last)

SetValue(elems) == [kind |-> "set", elems |-> uniqByFingerprint(elems)]

\* _.isEqual: deep equality of the stored objects (class and fields).
isEqual(x, y) == x = y

\* _.uniqWith(arr, _.isEqual)
RECURSIVE uniqWithIsEqual(_)
uniqWithIsEqual(arr) ==
    IF arr = <<>> THEN <<>>
    ELSE LET init == uniqWithIsEqual(SubSeq(arr, 1, Len(arr) - 1))
             last == arr[Len(arr)]
         IN  IF \E i \in 1..Len(init) : isEqual(init[i], last)
             THEN init ELSE Append(init, last)

unionWith(this, otherSet) == SetValue(uniqWithIsEqual(this.elems \o otherSet.elems))

\* _.intersectionWith(a, b, _.isEqual): the elements of a, once each, that b includes.
intersectionWith(this, otherSet) ==
    LET keep(e) == \E j \in 1..Len(otherSet.elems) : isEqual(e, otherSet.elems[j])
    IN  SetValue(uniqWithIsEqual(SelectSeq(this.elems, keep)))

\* _.differenceWith(a, b, _.isEqual): the elements of a that b does not include.
diffWith(this, otherSet) ==
    LET keep(e) == ~ \E j \in 1..Len(otherSet.elems) : isEqual(e, otherSet.elems[j])
    IN  SetValue(SelectSeq(this.elems, keep))

(***************************************************************************)
(* FcnRcdValue.toTuple.                                                    *)
(***************************************************************************)
\* The decimal digits of a natural number: IntValue.toString.
RECURSIVE DecDigits(_)
DecDigits(n) == IF n < 10 THEN <<n>> ELSE Append(DecDigits(n \div 10), n % 10)

\* toTuple throws when the domain is not a permutation of 1..n.
toTupleThrows(f) ==
    \/ \E i \in 1..Len(f.domain) : f.domain[i].kind # "int"
    \/ {f.domain[i].val : i \in 1..Len(f.domain)} # 1..Len(f.domain)

\* valsRevIndex[v]: the object is keyed by the printed value, and a later
\* index overwrites an earlier one with the same key.
valsRevIndex(f, v) ==
    LET last == CHOOSE i \in 1..Len(f.values) :
                   /\ f.values[i] = v
                   /\ \A j \in 1..Len(f.values) : f.values[j] = v => j <= i
    IN  f.domain[last]

\* _.sortBy(vals, v => valsRevIndex[v]): a stable sort whose keys are IntValue
\* objects, which `<` compares by their printed form.
toTuple(f) ==
    TupleValue(SortByKeys(f.values,
        [i \in 1..Len(f.values) |-> DecDigits(valsRevIndex(f, f.values[i]).val)]))

(***************************************************************************)
(* TLAState: the map stateVars, from variable names to values or null.     *)
(* During next-state evaluation it also has the primed names.              *)
(***************************************************************************)
\* The variable names the modelled modules declare.
VarNames == {"x", "y"}

hasVar(state, varname) == varname \in DOMAIN state

\* A missing property reads as undefined.
getVarVal(state, varname) == IF hasVar(state, varname) THEN state[varname] ELSE Undefined

\* _.mapValues: only the keys the state has are written.
withVarVal(state, varName, newVal) ==
    [k \in DOMAIN state |-> IF k = varName THEN newVal ELSE state[k]]

\* Keep the keys that end in a prime, with the prime sliced off.
deprimeVars(state) ==
    [v \in {u \in VarNames : (u \o "'") \in DOMAIN state} |-> state[v \o "'"]]

\* Object.keys(stateVars).sort()
RECURSIVE sortedKeys(_)
sortedKeys(ks) ==
    IF ks = {} THEN <<>>
    ELSE LET least == CHOOSE k \in ks : \A l \in ks \ {k} : StrLess(StrChars(k), StrChars(l))
         IN  <<least>> \o sortedKeys(ks \ {least})

\* fingerprint() of a value that may be null or undefined, or hold them,
\* throws a TypeError.
RECURSIVE canFingerprint(_)
canFingerprint(v) ==
    CASE v.kind \in {"int", "bool", "str"} -> TRUE
      [] v.kind \in {"set", "tuple"} -> \A i \in 1..Len(v.elems) : canFingerprint(v.elems[i])
      [] v.kind = "fcn" -> /\ \A i \in 1..Len(v.domain) : canFingerprint(v.domain[i])
                           /\ \A i \in 1..Len(v.values) : canFingerprint(v.values[i])
      [] OTHER -> FALSE

TLAState_fingerprintThrows(state) == \E k \in DOMAIN state : ~canFingerprint(state[k])

TLAState_fingerprint(state) ==
    LET stateKeys == sortedKeys(DOMAIN state)
    IN  hashSumArr(Concat([i \in 1..Len(stateKeys) |->
            <<StrChars(stateKeys[i]), fingerprint(state[stateKeys[i]])>>]))

\* _.keys(stateVars).filter(k => stateVars[k] !== null).length
numAssignedVars(state) == Cardinality({k \in DOMAIN state : state[k] # Null})

(***************************************************************************)
(* Syntax tree nodes, by the type and the children the evaluator reads.    *)
(***************************************************************************)
NatNumber(n) == [type |-> "nat_number", num |-> n]
Boolean(b) == [type |-> "boolean", bool |-> b]
Str(s) == [type |-> "string", str |-> s]
Id(name) == [type |-> "identifier_ref", text |-> name]
Prime(e) == [type |-> "bound_postfix_op", symbol |-> "prime", lhs |-> e]
Infix(symbol, lhs, rhs) ==
    [type |-> "bound_infix_op", symbol |-> symbol, lhs |-> lhs, rhs |-> rhs]
Prefix(symbol, rhs) == [type |-> "bound_prefix_op", symbol |-> symbol, rhs |-> rhs]
Paren(e) == [type |-> "parentheses", body |-> e]
ConjList(conjs) == [type |-> "conj_list", children |-> conjs]
DisjList(disjs) == [type |-> "disj_list", children |-> disjs]
Quant(quantifier, ident, domain, expr) ==
    [type |-> "bounded_quantification", quantifier |-> quantifier, ident |-> ident,
     domain |-> domain, expr |-> expr]
SetLit(es) == [type |-> "finite_set_literal", children |-> es]
TupLit(es) == [type |-> "tuple_literal", children |-> es]
Choose(ident, domain, condition) ==
    [type |-> "choose", ident |-> ident, domain |-> domain, condition |-> condition]
IfThenElse(c, t, e) == [type |-> "if_then_else", if |-> c, then |-> t, else |-> e]

\* node.text, as far as the evaluator compares it with variable names.
text(node) ==
    CASE node.type = "identifier_ref" -> node.text
      [] node.type = "bound_postfix_op" /\ node.lhs.type = "identifier_ref" ->
            node.lhs.text \o "'"
      [] OTHER -> "(expr)"

(***************************************************************************)
(* Context.  ASSIGN_PRIMED is a global of eval.js that getInitStates and   *)
(* getNextStates set before they evaluate; the model carries it with the   *)
(* context.  Contexts are values: clone() is the copy with the primed flag *)
(* reset, which the constructor does.  The two places where the evaluator  *)
(* writes into the context it was given (evalUnchanged, evalConjList) are  *)
(* modelled by the field ctx of an evaluation's result, the context of the *)
(* caller as the evaluation leaves it; a returned list that holds the      *)
(* caller's context itself is modelled as holding its value at the return. *)
(***************************************************************************)
Context(val, state, defns, quant_bound, constants, prev_func_val) ==
    [val |-> val, state |-> state, defns |-> defns, quant_bound |-> quant_bound,
     constants |-> constants, prev_func_val |-> prev_func_val, primed |-> FALSE,
     ASSIGN_PRIMED |-> FALSE]

clone(ctx) ==
    [Context(ctx.val, ctx.state, ctx.defns, ctx.quant_bound, ctx.constants, ctx.prev_func_val)
        EXCEPT !.ASSIGN_PRIMED = ctx.ASSIGN_PRIMED]

withValAndState(ctx, valNew, stateNew) == [clone(ctx) EXCEPT !.val = valNew, !.state = stateNew]
withVal(ctx, valNew) == [clone(ctx) EXCEPT !.val = valNew]
withState(ctx, stateNew) == [clone(ctx) EXCEPT !.state = stateNew]
withBoundVar(ctx, name, val) ==
    [clone(ctx) EXCEPT !.quant_bound =
        [n \in DOMAIN ctx.quant_bound \cup {name} |->
            IF n = name THEN val ELSE ctx.quant_bound[n]]]
withPrimed(ctx) == [clone(ctx) EXCEPT !.primed = TRUE]
isPrimed(ctx) == ctx.primed

(***************************************************************************)
(* The result of an evaluation: the list of contexts returned, the context *)
(* object that was passed in as the evaluation left it (evalUnchanged and  *)
(* evalConjList write to it), and whether the evaluation threw.  A return  *)
(* of undefined makes the caller throw, and is modelled as a throw.        *)
(***************************************************************************)
Ret(ctxs, ctx) == [ctxs |-> ctxs, ctx |-> ctx, err |-> FALSE]
Throw(ctx) == [ctxs |-> <<>>, ctx |-> ctx, err |-> TRUE]

\* evalExpr(...)[0]["val"]
Val0(r) == r.ctxs[1].val

\* The values that have getVal(): IntValue, BoolValue, StringValue.
hasGetVal(v) == v.kind \in {"int", "bool", "str"}

\* The truthiness of v.getVal().
truthy(v) ==
    CASE v.kind = "bool" -> IF "val" \in DOMAIN v THEN v.val ELSE
                               IF v.jsval.kind = "int" THEN v.jsval.val # 0 ELSE v.jsval.val # ""
      [] v.kind = "int" -> v.val # 0
      [] v.kind = "str" -> v.val # ""

\* v.getVal() === true, v.getVal() === false
isTrue(v) == v = BoolValue(TRUE)
isFalse(v) == v = BoolValue(FALSE)

\* BoolValue.and: new BoolValue(this.getVal() && other.getVal())
and(this, other) == IF ~truthy(this) THEN this ELSE BoolValueOf(other)
(***************************************************************************)
(* JavaScript numbers: an IntValue holds an integer or NaN.                *)
(***************************************************************************)

\* ToNumber of v.getVal(): a boolean is 0 or 1, the empty string is 0, and
\* the other strings the model has are NaN.
toNumber(v) ==
    CASE v.kind = "int" -> v
      [] v.kind = "bool" -> IF "val" \in DOMAIN v THEN IntValue(IF v.val THEN 1 ELSE 0) ELSE
                               IF v.jsval.kind = "int" THEN v.jsval ELSE
                               IF v.jsval.val = "" THEN IntValue(0) ELSE NaNValue
      [] v.kind = "str" -> IF v.val = "" THEN IntValue(0) ELSE NaNValue

jsPlus(l, r) == IF isNaN(l) \/ isNaN(r) THEN NaNValue ELSE IntValue(l.val + r.val)
jsMinus(l, r) == IF isNaN(l) \/ isNaN(r) THEN NaNValue ELSE IntValue(l.val - r.val)
jsMul(l, r) == IF isNaN(l) \/ isNaN(r) THEN NaNValue ELSE IntValue(l.val * r.val)
\* The remainder has the sign of the dividend; a zero divisor gives NaN.
jsMod(l, r) ==
    IF isNaN(l) \/ isNaN(r) THEN NaNValue
    ELSE IF r.val = 0 THEN NaNValue
    ELSE LET a == IF l.val < 0 THEN 0 - l.val ELSE l.val
             b == IF r.val < 0 THEN 0 - r.val ELSE r.val
         IN  IntValue(IF l.val < 0 THEN 0 - (a % b) ELSE a % b)
\* Every comparison with NaN is false.
jsLess(l, r) == ~isNaN(l) /\ ~isNaN(r) /\ l.val < r.val
jsLeq(l, r) == ~isNaN(l) /\ ~isNaN(r) /\ l.val <= r.val

(***************************************************************************)
(* The evaluator.                                                          *)
(***************************************************************************)
RECURSIVE evalExpr(_, _)

\* nodes.map(n => evalExpr(n, ctx)): the nodes are evaluated in order on the
\* one context object.
RECURSIVE evalEach(_, _)
evalEach(nodes, ctx) ==
    IF nodes = <<>> THEN [rets |-> <<>>, ctx |-> ctx, err |-> FALSE]
    ELSE LET joined(r, rest) ==
                 [rets |-> <<r.ctxs>> \o rest.rets, ctx |-> rest.ctx, err |-> rest.err]
             evaluated(r) ==
                 IF r.err THEN [rets |-> <<>>, ctx |-> r.ctx, err |-> TRUE]
                 ELSE joined(r, evalEach(Tail(nodes), r.ctx))
         IN  evaluated(evalExpr(Head(nodes), ctx))

\* ctxs.map(c => evalExpr(node, c)): each context of the list is an object of
\* its own.
RECURSIVE evalOnEach(_, _)
evalOnEach(node, ctxs) ==
    IF ctxs = <<>> THEN <<>>
    ELSE <<evalExpr(node, Head(ctxs))>> \o evalOnEach(node, Tail(ctxs))

\* let lhsVal = evalExpr(lhs, ctx)[0]["val"]; let rhsVal = evalExpr(rhs, ctx)[0]["val"];
evalOperands(lhs, rhs, ctx) ==
    LET l == evalExpr(lhs, ctx)
    IN  IF l.err THEN [err |-> TRUE, ctx |-> l.ctx]
        ELSE LET r == evalExpr(rhs, l.ctx)
             IN  IF r.err THEN [err |-> TRUE, ctx |-> r.ctx]
                 ELSE [err |-> FALSE, ctx |-> r.ctx, lhsVal |-> Val0(l), rhsVal |-> Val0(r),
                       rhsLen |-> Len(r.ctxs)]

evalLnot(v, ctx) ==
    LET r == evalExpr(v, ctx)
    IN  IF r.err THEN Throw(r.ctx)
        ELSE IF ~hasGetVal(Val0(r)) THEN Throw(r.ctx)
        ELSE Ret(<<withVal(r.ctx, BoolValue(~truthy(Val0(r))))>>, r.ctx)

\* evalLand with the right side evaluated on the context of the caller for
\* each context the left side returned.
evalLand_fromCaller(lhs, rhs, ctx) ==
    LET lhsEval == evalExpr(lhs, ctx)
    IN  IF lhsEval.err THEN Throw(lhsEval.ctx)
        ELSE LET n == Len(lhsEval.ctxs)
                 rhsEval == evalOnEach(rhs, [i \in 1..n |-> lhsEval.ctx])
             IN  IF \E i \in 1..n : rhsEval[i].err \/ lhsEval.ctxs[i].val.kind # "bool"
                 THEN Throw(lhsEval.ctx)
                 ELSE Ret(Concat([i \in 1..n |->
                            [j \in 1..Len(rhsEval[i].ctxs) |->
                                LET actx == rhsEval[i].ctxs[j]
                                IN  withValAndState(actx, and(lhsEval.ctxs[i].val, actx.val),
                                                    actx.state)]]),
                          lhsEval.ctx)

\* The right side is evaluated on each context the left side returned.
evalLand(lhs, rhs, ctx) ==
    LET lhsEval == evalExpr(lhs, ctx)
    IN  IF lhsEval.err THEN Throw(lhsEval.ctx)
        ELSE LET n == Len(lhsEval.ctxs)
                 rhsEval == evalOnEach(rhs, lhsEval.ctxs)
                 throws(i) ==
                    \/ rhsEval[i].err
                    \/ lhsEval.ctxs[i].val.kind # "bool"
                    \/ /\ truthy(lhsEval.ctxs[i].val)
                       /\ \E j \in 1..Len(rhsEval[i].ctxs) : ~hasGetVal(rhsEval[i].ctxs[j].val)
             IN  IF \E i \in 1..n : throws(i) THEN Throw(lhsEval.ctx)
                 ELSE Ret(Concat([i \in 1..n |->
                            [j \in 1..Len(rhsEval[i].ctxs) |->
                                LET actx == rhsEval[i].ctxs[j]
                                IN  withValAndState(actx, and(lhsEval.ctxs[i].val, actx.val),
                                                    actx.state)]]),
                          lhsEval.ctx)

assignedVars(state) == {k \in DOMAIN state : state[k] # Null}

\* processDisjunctiveContexts that returns only the TRUE contexts of the
\* sub-branches.
processDisjunctiveContexts_dropFalse(ctx, retCtxs, currAssignedVars) ==
    IF Len(retCtxs) > 1
    THEN IF \E i \in 1..Len(retCtxs) : retCtxs[i].val.kind # "bool" THEN Throw(ctx)
         ELSE LET assignedInSub ==
                    \E i \in 1..Len(retCtxs) :
                        Cardinality(assignedVars(retCtxs[i].state)) > Cardinality(currAssignedVars)
                  isTRUE(c) == truthy(c.val)
              IN  IF assignedInSub THEN Ret(SelectSeq(retCtxs, isTRUE), ctx)
                  ELSE LET someTrue == \E i \in 1..Len(retCtxs) : truthy(retCtxs[i].val)
                       IN  Ret(<<withVal(ctx, BoolValue(someTrue))>>, ctx)
    ELSE Ret(retCtxs, ctx)

processDisjunctiveContexts(ctx, retCtxs, currAssignedVars) ==
    IF Len(retCtxs) > 1
    THEN IF \E i \in 1..Len(retCtxs) : retCtxs[i].val.kind # "bool" THEN Throw(ctx)
         ELSE LET assignedInSub ==
                    \E i \in 1..Len(retCtxs) :
                        Cardinality(assignedVars(retCtxs[i].state)) > Cardinality(currAssignedVars)
              IN  IF assignedInSub THEN Ret(retCtxs, ctx)
                  ELSE LET someTrue == \E i \in 1..Len(retCtxs) : truthy(retCtxs[i].val)
                       IN  Ret(<<withVal(ctx, BoolValue(someTrue))>>, ctx)
    ELSE Ret(retCtxs, ctx)

evalLor(lhs, rhs, ctx) ==
    LET currAssignedVars == assignedVars(ctx.state)
        ctxLhs == evalExpr(lhs, ctx)
    IN  IF ctxLhs.err THEN Throw(ctxLhs.ctx)
        ELSE LET ctxRhs == evalExpr(rhs, ctxLhs.ctx)
             IN  IF ctxRhs.err THEN Throw(ctxRhs.ctx)
                 ELSE processDisjunctiveContexts(ctxRhs.ctx, ctxLhs.ctxs \o ctxRhs.ctxs,
                                                 currAssignedVars)

isPrimedVar(treeNode, ctx) ==
    /\ treeNode.type = "bound_postfix_op"
    /\ treeNode.lhs.type = "identifier_ref"
    /\ treeNode.symbol = "prime"
    /\ hasVar(ctx.state, treeNode.lhs.text)
    /\ getVarVal(ctx.state, treeNode.lhs.text) # Null

evalEq(lhs, rhs, ctx) ==
    LET identName == text(lhs)
        isUnprimedVar == hasVar(ctx.state, identName) /\ ~isPrimedVar(lhs, ctx)
    IN  IF isPrimedVar(lhs, ctx) \/ (isUnprimedVar /\ ~ctx.ASSIGN_PRIMED)
        THEN IF hasVar(ctx.state, identName) /\ getVarVal(ctx.state, identName) # Null
             THEN \* Already assigned: compare.
                  LET rhsVals == evalExpr(rhs, ctx)
                  IN  IF rhsVals.err THEN Throw(rhsVals.ctx)
                      ELSE IF Len(rhsVals.ctxs) # 1 THEN Throw(rhsVals.ctx)
                      ELSE LET lhsVals == evalExpr(lhs, rhsVals.ctx)
                           IN  IF lhsVals.err THEN Throw(lhsVals.ctx)
                               ELSE IF \/ ~canFingerprint(Val0(lhsVals))
                                       \/ ~canFingerprint(Val0(rhsVals))
                               THEN Throw(lhsVals.ctx)
                               ELSE Ret(<<withVal(lhsVals.ctx,
                                            BoolValue(fingerprint(Val0(lhsVals))
                                                        = fingerprint(Val0(rhsVals))))>>,
                                        lhsVals.ctx)
             ELSE \* Not assigned: the right side is evaluated only if the state has the key.
                  IF ~hasVar(ctx.state, identName)
                  THEN Ret(<<withValAndState(ctx, BoolValue(TRUE), ctx.state)>>, ctx)
                  ELSE LET rhsVals == evalExpr(rhs, clone(ctx))
                       IN  IF rhsVals.err THEN Throw(ctx)
                           ELSE IF Len(rhsVals.ctxs) # 1 THEN Throw(ctx)
                           ELSE Ret(<<withValAndState(ctx, BoolValue(TRUE),
                                        withVarVal(ctx.state, identName, Val0(rhsVals)))>>, ctx)
        ELSE LET lhsVals == evalExpr(lhs, clone(ctx))
                 rhsVals == evalExpr(rhs, clone(ctx))
             IN  IF lhsVals.err THEN Throw(ctx)
                 ELSE IF Len(lhsVals.ctxs) # 1 THEN Throw(ctx)
                 ELSE IF rhsVals.err THEN Throw(ctx)
                 ELSE IF Len(rhsVals.ctxs) # 1 THEN Throw(ctx)
                 ELSE IF ~canFingerprint(Val0(lhsVals)) \/ ~canFingerprint(Val0(rhsVals))
                 THEN Throw(ctx)
                 ELSE Ret(<<withVal(ctx, BoolValue(fingerprint(Val0(lhsVals))
                                                     = fingerprint(Val0(rhsVals))))>>, ctx)

\* The definitions are substituted while the operand names one.
RECURSIVE unchangedVal(_, _)
unchangedVal(node, defns) ==
    IF node.type = "identifier_ref" /\ node.text \in DOMAIN defns
    THEN unchangedVal(defns[node.text].node, defns)
    ELSE node

\* The loop of evalUnchanged: ctx.state is overwritten in the context passed in.
RECURSIVE unchangedElems(_, _)
unchangedElems(tupleElems, ctx) ==
    IF tupleElems = <<>> THEN Ret(<<>>, ctx)
    ELSE LET elem == Head(tupleElems)
             r == evalExpr(elem, ctx)
         IN  IF r.err THEN Throw(r.ctx)
             ELSE LET unprimedVarVal == Val0(r)
                      primedVarName == elem.text \o "'"
                  IN  unchangedElems(Tail(tupleElems),
                        [r.ctx EXCEPT !.state = withVarVal(r.ctx.state, primedVarName,
                                                           unprimedVarVal)])

evalUnchanged(node, ctx) ==
    LET uv == unchangedVal(node.rhs, ctx.defns)
        isIdentifierRef(c) == c.type = "identifier_ref"
        tupleElems == IF uv.type = "tuple_literal" THEN SelectSeq(uv.children, isIdentifierRef)
                      ELSE <<uv>>
    IN  IF uv.type # "tuple_literal" /\ uv.type # "identifier_ref" THEN Throw(ctx)
        ELSE LET u == unchangedElems(tupleElems, ctx)
             IN  IF u.err THEN Throw(u.ctx)
                 ELSE Ret(<<withVal(u.ctx, BoolValue(TRUE))>>, u.ctx)

\* _.range(start, end): up to end, or down to it when start is above it.  NaN
\* counts as 0.
range(start, end) ==
    IF start <= end THEN [i \in 1..(end - start) |-> IntValue(start + i - 1)]
    ELSE [i \in 1..(start - end) |-> IntValue(start - (i - 1))]

\* Of the infix symbols, times, map_to, compose and circ are not modelled.
evalBoundInfix(node, ctx) ==
    LET lhs == node.lhs
        symbol == node.symbol
        rhs == node.rhs
        ops == evalOperands(lhs, rhs, ctx)
        bothInt == ops.lhsVal.kind = "int" /\ ops.rhsVal.kind = "int"
        bothGetVal == hasGetVal(ops.lhsVal) /\ hasGetVal(ops.rhsVal)
        bothSet == ops.lhsVal.kind = "set" /\ ops.rhsVal.kind = "set"
        out(v) == Ret(<<withVal(ops.ctx, v)>>, ops.ctx)
    IN  CASE symbol = "mul" ->
                IF ops.err THEN Throw(ops.ctx)
                ELSE IF ~bothGetVal THEN Throw(ops.ctx)
                ELSE out(jsMul(toNumber(ops.lhsVal), toNumber(ops.rhsVal)))
          [] symbol = "plus" ->
                IF ops.err THEN Throw(ops.ctx)
                ELSE IF ~bothInt THEN Throw(ops.ctx)
                ELSE out(jsPlus(ops.lhsVal, ops.rhsVal))
          [] symbol = "minus" ->
                IF ops.err THEN Throw(ops.ctx)
                ELSE IF ~bothInt THEN Throw(ops.ctx)
                ELSE out(jsMinus(ops.lhsVal, ops.rhsVal))
          [] symbol = "gt" ->
                IF ops.err THEN Throw(ops.ctx)
                ELSE IF ~bothInt THEN Throw(ops.ctx)
                ELSE out(BoolValue(jsLess(ops.rhsVal, ops.lhsVal)))
          [] symbol = "lt" ->
                IF ops.err THEN Throw(ops.ctx)
                ELSE IF ~bothInt THEN Throw(ops.ctx)
                ELSE out(BoolValue(jsLess(ops.lhsVal, ops.rhsVal)))
          [] symbol = "geq" ->
                IF ops.err THEN Throw(ops.ctx)
                ELSE IF ~bothInt THEN Throw(ops.ctx)
                ELSE out(BoolValue(jsLeq(ops.rhsVal, ops.lhsVal)))
          [] symbol = "leq" ->
                IF ops.err THEN Throw(ops.ctx)
                ELSE IF ~bothInt THEN Throw(ops.ctx)
                ELSE out(BoolValue(jsLeq(ops.lhsVal, ops.rhsVal)))
          [] symbol = "mod" ->
                IF ops.err THEN Throw(ops.ctx)
                ELSE IF ~bothGetVal THEN Throw(ops.ctx)
                ELSE out(jsMod(toNumber(ops.lhsVal), toNumber(ops.rhsVal)))
          [] symbol = "lor" -> evalLor(lhs, rhs, ctx)
          [] symbol = "land" -> evalLand(lhs, rhs, ctx)
          [] symbol = "implies" ->
                IF ops.err THEN Throw(ops.ctx)
                ELSE IF ~hasGetVal(ops.lhsVal) THEN Throw(ops.ctx)
                ELSE IF ~truthy(ops.lhsVal) THEN out(BoolValue(TRUE))
                ELSE IF ~hasGetVal(ops.rhsVal) THEN Throw(ops.ctx)
                ELSE out(BoolValueOf(ops.rhsVal))
          [] symbol = "eq" -> evalEq(lhs, rhs, ctx)
          [] symbol = "neq" ->
                IF ops.err THEN Throw(ops.ctx)
                ELSE IF ops.rhsLen # 1 THEN Throw(ops.ctx)
                ELSE IF ~canFingerprint(ops.lhsVal) \/ ~canFingerprint(ops.rhsVal)
                THEN Throw(ops.ctx)
                ELSE out(BoolValue(fingerprint(ops.lhsVal) # fingerprint(ops.rhsVal)))
          [] symbol \in {"in", "notin"} -> Throw(ctx)
          [] symbol = "cap" ->
                IF ops.err THEN Throw(ops.ctx)
                ELSE IF ~bothSet THEN Throw(ops.ctx)
                ELSE out(intersectionWith(ops.lhsVal, ops.rhsVal))
          [] symbol = "cup" ->
                IF ops.err THEN Throw(ops.ctx)
                ELSE IF ~bothSet THEN Throw(ops.ctx)
                ELSE out(unionWith(ops.lhsVal, ops.rhsVal))
          [] symbol = "setminus" ->
                IF ops.err THEN Throw(ops.ctx)
                ELSE IF ~bothSet THEN Throw(ops.ctx)
                ELSE out(diffWith(ops.lhsVal, ops.rhsVal))
          [] symbol = "dots_2" ->
                IF ops.err THEN Throw(ops.ctx)
                ELSE IF ~bothInt THEN Throw(ops.ctx)
                ELSE out(SetValue(range(IF isNaN(ops.lhsVal) THEN 0 ELSE ops.lhsVal.val,
                                        IF isNaN(ops.rhsVal) THEN 0 ELSE ops.rhsVal.val + 1)))
          [] OTHER -> Throw(ctx)

evalEnabled(node, ctx) ==
    LET r == evalExpr(node.rhs, ctx)
    IN  IF r.err THEN Throw(r.ctx)
        ELSE IF Val0(r).kind # "bool" THEN Throw(r.ctx)
        ELSE Ret(<<withVal(r.ctx, Val0(r))>>, r.ctx)

\* -rhsVal is applied to the value object, which converts by its toString():
\* the number of an IntValue, and NaN for the other values but null, which
\* gives -0.
negate(v) ==
    CASE v.kind = "int" -> jsMinus(IntValue(0), v)
      [] v.kind = "null" -> IntValue(0)
      [] OTHER -> NaNValue

\* Of the prefix symbols, domain and powerset are not modelled.
evalBoundPrefix(node, ctx) ==
    LET symbol == node.symbol
        rhs == node.rhs
    IN  CASE symbol = "enabled" -> evalEnabled(node, ctx)
          [] symbol = "negative" ->
                LET rhsVal == evalExpr(rhs, ctx)
                IN  IF rhsVal.err THEN Throw(rhsVal.ctx)
                    ELSE Ret(<<withVal(rhsVal.ctx, negate(Val0(rhsVal)))>>, rhsVal.ctx)
          [] symbol = "lnot" -> evalLnot(rhs, ctx)
          [] symbol = "unchanged" -> evalUnchanged(node, ctx)
          [] OTHER -> Throw(ctx)

\* The operand is evaluated on a primed copy of the context.
evalBoundPostfix(node, ctx) ==
    IF node.symbol = "prime"
    THEN LET r == evalExpr(node.lhs, withPrimed(ctx))
         IN  IF r.err THEN Throw(ctx) ELSE Ret(r.ctxs, ctx)
    ELSE Throw(ctx)

evalDisjList(parent, disjs, ctx) ==
    LET currAssignedVars == assignedVars(ctx.state)
        each == evalEach(disjs, ctx)
    IN  IF each.err THEN Throw(each.ctx)
        ELSE processDisjunctiveContexts(each.ctx, Concat(each.rets), currAssignedVars)

\* The body of prev.map in evalConjList.
evalConjPrev(conj, ctxPrev) ==
    IF ~hasGetVal(ctxPrev.val) THEN Throw(ctxPrev)
    ELSE IF isFalse(ctxPrev.val) THEN Ret(<<ctxPrev>>, ctxPrev)
    ELSE LET r == evalExpr(conj, ctxPrev)
         IN  IF r.err THEN Throw(r.ctx)
             ELSE IF \E i \in 1..Len(r.ctxs) : r.ctxs[i].val.kind # "bool" THEN Throw(r.ctx)
             ELSE Ret([i \in 1..Len(r.ctxs) |->
                          withVal(r.ctxs[i], and(r.ctxs[i].val, ctxPrev.val))], r.ctx)

RECURSIVE evalConjPrevEach(_, _)
evalConjPrevEach(conj, prev) ==
    IF prev = <<>> THEN <<>>
    ELSE <<evalConjPrev(conj, Head(prev))>> \o evalConjPrevEach(conj, Tail(prev))

\* The reduce of evalConjList from the i-th conjunct on.  Only the first
\* conjunct is evaluated on the context object that was passed in.
RECURSIVE conjReduce(_, _, _, _)
conjReduce(conjs, i, prev, ctx) ==
    IF i > Len(conjs) THEN Ret(prev, ctx)
    ELSE LET res == evalConjPrevEach(conjs[i], prev)
             ctxNext == IF i = 1 THEN res[1].ctx ELSE ctx
         IN  IF \E j \in 1..Len(prev) : res[j].err THEN Throw(ctxNext)
             ELSE conjReduce(conjs, i + 1, Concat([j \in 1..Len(prev) |-> res[j].ctxs]), ctxNext)

\* The children are the conjuncts: the conj_item nodes pass their expression
\* on, and comments are filtered out.
evalConjList(parent, conjs, ctx) ==
    LET ctx1 == IF ctx.val = Null THEN [ctx EXCEPT !.val = BoolValue(TRUE)] ELSE ctx
    IN  conjReduce(conjs, 1, <<ctx1>>, ctx1)

(***************************************************************************)
(* Function application and EXCEPT.  A method of FcnRcdValue that can      *)
(* throw returns the flag err with its value.                              *)
(***************************************************************************)
Except(lExpr, updates) == [type |-> "except", lExpr |-> lExpr, updates |-> updates]
ExceptUpdate(updateSpec, new_val) == [updateSpec |-> updateSpec, new_val |-> new_val]
ExceptFnAppl(e) == [type |-> "except_update_fn_appl", expr |-> e]
ExceptRecordField(name) == [type |-> "except_update_record_field", text |-> name]
PrevFuncVal == [type |-> "prev_func_val"]
FunctionEvaluation(fn, args) == [type |-> "function_evaluation", fn |-> fn, args |-> args]

Returned(val) == [err |-> FALSE, val |-> val]
Thrown == [err |-> TRUE, val |-> Undefined]

\* FcnRcdValue.argIndex: the first index of the domain with the fingerprint
\* of arg, counted from 1, and 0 where _.findIndex gives -1.
RECURSIVE findIndex(_, _, _)
findIndex(domain, fp, i) ==
    IF i > Len(domain) THEN 0
    ELSE IF fingerprint(domain[i]) = fp THEN i
    ELSE findIndex(domain, fp, i + 1)

argIndex(this, arg) == findIndex(this.domain, fingerprint(arg), 1)

\* arg.fingerprint() throws for null and undefined, when the domain has an
\* element to compare with.
argIndexThrows(this, arg) == this.domain # <<>> /\ ~canFingerprint(arg)

applyArg(this, arg) ==
    LET at(idx) == IF idx = 0 THEN Thrown ELSE Returned(this.values[idx])
    IN  IF argIndexThrows(this, arg) THEN Thrown ELSE at(argIndex(this, arg))

RECURSIVE applyPathArg(_, _)
applyPathArg(this, pathArg) ==
    IF pathArg = <<>> THEN Thrown
    ELSE LET rest(fApplied) ==
                 IF Len(pathArg) = 1 \/ fApplied.err THEN fApplied
                 ELSE IF fApplied.val.kind # "fcn" THEN Thrown
                 ELSE applyPathArg(fApplied.val, Tail(pathArg))
         IN  rest(applyArg(this, Head(pathArg)))

RECURSIVE updateWithPath(_, _, _)
updateWithPath(this, args, newVal) ==
    IF args = <<>> THEN Thrown
    ELSE IF argIndexThrows(this, Head(args)) THEN Thrown
    ELSE LET updated(idx, inner) ==
                 IF inner.err THEN Thrown
                 ELSE Returned([this EXCEPT !.values[idx] = inner.val])
             at(idx) ==
                 IF idx = 0 THEN Thrown
                 ELSE IF Len(args) = 1 THEN Returned([this EXCEPT !.values[idx] = newVal])
                 ELSE IF this.values[idx].kind # "fcn" THEN Thrown
                 ELSE updated(idx, updateWithPath(this.values[idx], Tail(args), newVal))
         IN  at(argIndex(this, Head(args)))

\* updateSpec.namedChildren.map(...): the value of each step of the path.
RECURSIVE updateSpecVals(_, _)
updateSpecVals(children, ctx) ==
    IF children = <<>> THEN [err |-> FALSE, vals |-> <<>>, ctx |-> ctx]
    ELSE LET c == Head(children)
             more(val, rest) ==
                 [err |-> rest.err, vals |-> <<val>> \o rest.vals, ctx |-> rest.ctx]
             evaluated(r) ==
                 IF r.err \/ r.ctxs = <<>> THEN [err |-> TRUE, vals |-> <<>>, ctx |-> r.ctx]
                 ELSE more(r.ctxs[1].val, updateSpecVals(Tail(children), r.ctx))
         IN  IF c.type = "except_update_record_field"
             THEN more(StringValue(c.text), updateSpecVals(Tail(children), ctx))
             ELSE evaluated(evalExpr(c.expr, ctx))

\* The loop over the updates of an EXCEPT, from update i on.
RECURSIVE exceptUpdates(_, _, _, _, _)
exceptUpdates(updateExprs, i, origFnVal, updatedFnVal, ctx) ==
    IF i > Len(updateExprs) THEN [err |-> FALSE, val |-> updatedFnVal, ctx |-> ctx]
    ELSE LET failed(c) == [err |-> TRUE, val |-> Undefined, ctx |-> c]
             next(upd, c) ==
                 IF upd.err THEN failed(c)
                 ELSE exceptUpdates(updateExprs, i + 1, origFnVal, upd.val, c)
             assigned(path, newRhsVal) ==
                 IF newRhsVal.err \/ newRhsVal.ctxs = <<>> THEN failed(path.ctx)
                 ELSE next(updateWithPath(updatedFnVal, path.vals, newRhsVal.ctxs[1].val),
                           path.ctx)
             withPrev(path, prev) ==
                 IF prev.err THEN failed(path.ctx)
                 ELSE assigned(path,
                               evalExpr(updateExprs[i].new_val,
                                        [clone(path.ctx) EXCEPT !.prev_func_val = prev.val]))
             withPath(path) ==
                 IF path.err THEN failed(path.ctx)
                 ELSE withPrev(path, applyPathArg(origFnVal, path.vals))
         IN  withPath(updateSpecVals(updateExprs[i].updateSpec, ctx))

evalExcept(node, ctx) ==
    LET finished(wasTuple, r) ==
            IF r.err THEN Throw(r.ctx)
            ELSE Ret(<<withVal(r.ctx, IF wasTuple THEN TupleValue(r.val.values) ELSE r.val)>>,
                     r.ctx)
        looped(wasTuple, fnVal, c) ==
            finished(wasTuple, exceptUpdates(node.updates, 1, fnVal, fnVal, c))
        updatedFrom(origFnVal, c) ==
            IF origFnVal.kind \notin {"tuple", "fcn"} THEN Throw(c)
            ELSE looped(origFnVal.kind = "tuple",
                        IF origFnVal.kind = "tuple" THEN toFcnRcd(origFnVal) ELSE origFnVal, c)
        started(lExprVal) ==
            IF lExprVal.err \/ lExprVal.ctxs = <<>> THEN Throw(lExprVal.ctx)
            ELSE updatedFrom(lExprVal.ctxs[1].val, lExprVal.ctx)
    IN  started(evalExpr(node.lExpr, ctx))

\* The argument of a function evaluation: of two or more arguments, their tuple.
fnArgValOf(each) ==
    IF Len(each.rets) > 1
    THEN TupleValue([i \in 1..Len(each.rets) |-> each.rets[i][1].val])
    ELSE each.rets[1][1].val

\* evalExpr of a function_evaluation node.
evalFunctionEvaluation(node, ctx) ==
    LET returned(fnValRes, c) ==
            IF fnValRes.err THEN Throw(c) ELSE Ret(<<withVal(c, fnValRes.val)>>, c)
        applied(fnVal, fnArgVal, c) ==
            IF fnVal.kind = "tuple"
            THEN IF fnArgVal.kind # "int" THEN Throw(c)
                 ELSE IF ~isNaN(fnArgVal) /\ fnArgVal.val \in 1..Len(fnVal.elems)
                 THEN Ret(<<withVal(c, fnVal.elems[fnArgVal.val])>>, c)
                 ELSE Ret(<<withVal(c, Undefined)>>, c)
            ELSE IF fnVal.kind # "fcn" THEN Throw(c)
            ELSE returned(applyArg(fnVal, fnArgVal), c)
        withArgs(fnVal, each) ==
            IF each.err \/ each.rets = <<>> \/ \E i \in 1..Len(each.rets) : each.rets[i] = <<>>
            THEN Throw(each.ctx)
            ELSE applied(fnVal, fnArgValOf(each), each.ctx)
        withFn(r) ==
            IF r.err \/ r.ctxs = <<>> THEN Throw(r.ctx)
            ELSE withArgs(r.ctxs[1].val, evalEach(node.args, r.ctx))
    IN  withFn(evalExpr(node.fn, ctx))

\* Function definitions (defNode.type = "function_definition") are not modelled.
evalIdentifierRef(node, ctx) ==
    LET ident_name == node.text
    IN  IF hasVar(ctx.state, ident_name) /\ ~isPrimed(ctx)
        THEN Ret(<<withVal(ctx, getVarVal(ctx.state, ident_name))>>, ctx)
        ELSE IF hasVar(ctx.state, ident_name \o "'") /\ isPrimed(ctx)
        THEN Ret(<<withVal(ctx, getVarVal(ctx.state, ident_name \o "'"))>>, ctx)
        ELSE IF ident_name \in DOMAIN ctx.quant_bound
        THEN Ret(<<withVal(ctx, ctx.quant_bound[ident_name])>>, ctx)
        ELSE IF ident_name \in DOMAIN ctx.defns
        THEN evalExpr(ctx.defns[ident_name].node, ctx)
        ELSE IF ident_name \in DOMAIN ctx.constants
        THEN Ret(<<withVal(ctx, ctx.constants[ident_name])>>, ctx)
        ELSE Throw(ctx)

\* _.every that is satisfied by one true value.
every_some(retCtxs) == \E i \in 1..Len(retCtxs) : truthy(retCtxs[i].val)

\* _.every(retCtxs.map(c => c["val"].getVal()))
every(retCtxs) == \A i \in 1..Len(retCtxs) : truthy(retCtxs[i].val)

evalBoundedQuantification(node, ctx) ==
    LET quantifier == node.quantifier
        quantIdent == node.ident
        quant_expr == node.expr
        dom == evalExpr(node.domain, ctx)
    IN  IF dom.err THEN Throw(dom.ctx)
        ELSE IF Val0(dom).kind # "set" THEN Throw(dom.ctx)
        ELSE LET quantDomain == Val0(dom).elems
                 ctx1 == dom.ctx
                 currAssignedVars == assignedVars(ctx1.state)
                 rets == evalOnEach(quant_expr,
                            [i \in 1..Len(quantDomain) |->
                                clone(withBoundVar(ctx1, quantIdent, quantDomain[i]))])
                 retCtxs == Concat([i \in 1..Len(quantDomain) |-> rets[i].ctxs])
             IN  IF quantDomain = <<>>
                 THEN Ret(<<withVal(ctx1, BoolValue(quantifier = "forall"))>>, ctx1)
                 ELSE IF \E i \in 1..Len(quantDomain) : rets[i].err THEN Throw(ctx1)
                 ELSE IF quantifier = "forall"
                 THEN IF \E i \in 1..Len(retCtxs) : ~hasGetVal(retCtxs[i].val) THEN Throw(ctx1)
                      ELSE Ret(<<withVal(ctx1, BoolValue(every(retCtxs)))>>, ctx1)
                 ELSE processDisjunctiveContexts(ctx1, retCtxs, currAssignedVars)

\* The loop of evalChoose over domainVal.getElems(), from the i-th element on.
RECURSIVE chooseFrom(_, _, _, _)
chooseFrom(node, elems, i, ctx) ==
    IF i > Len(elems) THEN Throw(ctx)
    ELSE LET val == elems[i]
             boundCtx == withBoundVar(ctx, node.ident, val)
             cond == evalExpr(node.condition, boundCtx)
         IN  IF cond.err THEN Throw(ctx)
             ELSE IF ~hasGetVal(Val0(cond)) THEN Throw(ctx)
             ELSE IF truthy(Val0(cond)) THEN Ret(<<withVal(ctx, val)>>, ctx)
             ELSE chooseFrom(node, elems, i + 1, ctx)

evalChoose(node, ctx) ==
    LET dom == evalExpr(node.domain, ctx)
    IN  IF dom.err THEN Throw(dom.ctx)
        ELSE IF Val0(dom).kind \notin {"set", "tuple"} THEN Throw(dom.ctx)
        ELSE chooseFrom(node, Val0(dom).elems, 1, dom.ctx)

evalFiniteSetLiteral(node, ctx) ==
    LET each == evalEach(node.children, ctx)
        ret == [i \in 1..Len(each.rets) |-> each.rets[i][1].val]
    IN  IF each.err THEN Throw(each.ctx)
        ELSE IF \E i \in 1..Len(each.rets) : Len(each.rets[i]) # 1 THEN Throw(each.ctx)
        ELSE IF \E i \in 1..Len(ret) : ~canFingerprint(ret[i]) THEN Throw(each.ctx)
        ELSE Ret(<<withVal(each.ctx, SetValue(ret))>>, each.ctx)

\* Of the node types, let_in, bound_op, case, set_of_functions,
\* set_of_records, set_map, set_filter, record_value, boolean_set,
\* record_literal and function_literal are not modelled.
evalExpr(node, ctx) ==
    IF node.type = "parentheses" THEN evalExpr(node.body, ctx)
    ELSE IF node.type = "prev_func_val"
    THEN IF ctx.prev_func_val = Null THEN Throw(ctx)
         ELSE Ret(<<withVal(ctx, ctx.prev_func_val)>>, ctx)
    ELSE IF node.type = "choose" THEN evalChoose(node, ctx)
    ELSE IF node.type = "except" THEN evalExcept(node, ctx)
    ELSE IF node.type = "function_evaluation" THEN evalFunctionEvaluation(node, ctx)
    ELSE IF isPrimedVar(node, ctx) /\ getVarVal(ctx.state, text(node)) # Null
    THEN Ret(<<withVal(ctx, getVarVal(ctx.state, text(node)))>>, ctx)
    ELSE
    CASE node.type = "conj_list" -> evalConjList(node, node.children, ctx)
      [] node.type = "disj_list" -> evalDisjList(node, node.children, ctx)
      [] node.type = "bound_infix_op" -> evalBoundInfix(node, ctx)
      [] node.type = "bound_prefix_op" -> evalBoundPrefix(node, ctx)
      [] node.type = "bound_postfix_op" -> evalBoundPostfix(node, ctx)
      [] node.type = "bounded_quantification" -> evalBoundedQuantification(node, ctx)
      [] node.type = "identifier_ref" -> evalIdentifierRef(node, ctx)
      [] node.type = "if_then_else" ->
            LET cond == evalExpr(node.if, clone(ctx))
            IN  IF cond.err THEN Throw(ctx)
                ELSE IF ~hasGetVal(Val0(cond)) THEN Throw(ctx)
                ELSE LET branch == evalExpr(IF truthy(Val0(cond)) THEN node.then ELSE node.else,
                                            clone(ctx))
                     IN  IF branch.err THEN Throw(ctx) ELSE Ret(branch.ctxs, ctx)
      [] node.type = "nat_number" -> Ret(<<withVal(ctx, IntValue(node.num))>>, ctx)
      [] node.type = "boolean" -> Ret(<<withVal(ctx, BoolValue(node.bool))>>, ctx)
      [] node.type = "string" -> Ret(<<withVal(ctx, StringValue(node.str))>>, ctx)
      [] node.type = "finite_set_literal" -> evalFiniteSetLiteral(node, ctx)
      [] node.type = "tuple_literal" ->
            LET each == evalEach(node.children, ctx)
            IN  IF each.err THEN Throw(each.ctx)
                ELSE Ret(<<withVal(each.ctx,
                            TupleValue([i \in 1..Len(each.rets) |-> each.rets[i][1].val]))>>,
                         each.ctx)
      [] OTHER -> Throw(ctx)

(***************************************************************************)
(* Initial states and successor states.  A list of contexts that a         *)
(* function returns comes with the flag err, set when the function threw.  *)
(***************************************************************************)
getInitStates(initDef, vars, defns, constvals) ==
    LET emptyInitState == [v \in vars |-> Null]
        initCtx == Context(Null, emptyInitState, defns, <<>>, constvals, Undefined)
        returned(ret_ctxs) == [err |-> ret_ctxs.err, ctxs |-> ret_ctxs.ctxs]
    IN  returned(evalExpr(initDef, initCtx))

\* The context that getNextStates evaluates Next in: the state with a null
\* primed copy of each of its variables, and ASSIGN_PRIMED set.  The for-in
\* loop that adds the primed copies visits the keys the state had when the
\* loop began.
nextInitCtx(currStateVars, defns, constvals) ==
    LET origVars == DOMAIN currStateVars
        stateVars == [k \in origVars \cup {v \o "'" : v \in origVars} |->
                        IF k \in origVars THEN currStateVars[k] ELSE Null]
    IN  [Context(Null, stateVars, defns, <<>>, constvals, Undefined)
            EXCEPT !.ASSIGN_PRIMED = TRUE]

\* getNextStates without the filter on the primed variables.
getNextStates_keepUnassigned(nextDef, currStateVars, defns, constvals) ==
    LET isEnabled(c) == isTrue(c.val)
        filtered(ret) ==
            IF ret.err THEN [err |-> TRUE, ctxs |-> <<>>]
            ELSE IF \E i \in 1..Len(ret.ctxs) : ~hasGetVal(ret.ctxs[i].val)
            THEN [err |-> TRUE, ctxs |-> <<>>]
            ELSE [err |-> FALSE, ctxs |-> SelectSeq(ret.ctxs, isEnabled)]
    IN  filtered(evalExpr(nextDef, nextInitCtx(currStateVars, defns, constvals)))

\* getNextStates with the filter on the transitions that do not modify the
\* state, which the source has commented out.
getNextStates_dropStuttering(nextDef, currStateVars, defns, constvals) ==
    LET origVars == DOMAIN currStateVars
        isEnabled(c) == isTrue(c.val)
        allAssigned(c) == \A v \in origVars : getVarVal(c.state, v \o "'") # Null
        modifies(c) ==
            ~\A v \in origVars :
                fingerprint(getVarVal(c.state, v)) = fingerprint(getVarVal(c.state, v \o "'"))
        filtered(ret) ==
            IF ret.err THEN [err |-> TRUE, ctxs |-> <<>>]
            ELSE IF \E i \in 1..Len(ret.ctxs) : ~hasGetVal(ret.ctxs[i].val)
            THEN [err |-> TRUE, ctxs |-> <<>>]
            ELSE [err |-> FALSE,
                  ctxs |-> SelectSeq(SelectSeq(SelectSeq(ret.ctxs, isEnabled), allAssigned),
                                     modifies)]
    IN  filtered(evalExpr(nextDef, nextInitCtx(currStateVars, defns, constvals)))

getNextStates(nextDef, currStateVars, defns, constvals) ==
    LET origVars == DOMAIN currStateVars
        isEnabled(c) == isTrue(c.val)
        allAssigned(c) == \A v \in origVars : getVarVal(c.state, v \o "'") # Null
        filtered(ret) ==
            IF ret.err THEN [err |-> TRUE, ctxs |-> <<>>]
            ELSE IF \E i \in 1..Len(ret.ctxs) : ~hasGetVal(ret.ctxs[i].val)
            THEN [err |-> TRUE, ctxs |-> <<>>]
            ELSE [err |-> FALSE,
                  ctxs |-> SelectSeq(SelectSeq(ret.ctxs, isEnabled), allAssigned)]
    IN  filtered(evalExpr(nextDef, nextInitCtx(currStateVars, defns, constvals)))

computeInitStates(treeObjs, constvals) ==
    LET vars == treeObjs.var_decls
        defns == treeObjs.op_defs
        initDef == defns["Init"]
        isValid(actx) == truthy(actx.val)
        statesOf(valid) == [i \in 1..Len(valid) |-> valid[i].state]
        filtered(initStates) ==
            IF initStates.err THEN [err |-> TRUE, states |-> <<>>]
            ELSE IF \E i \in 1..Len(initStates.ctxs) : ~hasGetVal(initStates.ctxs[i].val)
            THEN [err |-> TRUE, states |-> <<>>]
            ELSE [err |-> FALSE, states |-> statesOf(SelectSeq(initStates.ctxs, isValid))]
    IN  filtered(getInitStates(initDef.node, vars, defns, constvals))

\* The loop of computeNextStates over the states.
RECURSIVE getNextStatesEach(_, _, _, _)
getNextStatesEach(nextDef, states, defns, constvals) ==
    IF states = <<>> THEN <<>>
    ELSE <<getNextStates(nextDef, Head(states), defns, constvals)>>
            \o getNextStatesEach(nextDef, Tail(states), defns, constvals)

computeNextStates(treeObjs, constvals, initStates) ==
    LET defns == treeObjs.op_defs
        nextDef == defns["Next"]
        flattened(rets) ==
            IF \E i \in 1..Len(initStates) : rets[i].err THEN [err |-> TRUE, ctxs |-> <<>>]
            ELSE [err |-> FALSE, ctxs |-> Concat([i \in 1..Len(initStates) |-> rets[i].ctxs])]
    IN  flattened(getNextStatesEach(nextDef.node, initStates, defns, constvals))

(***************************************************************************)
(* parseSpec: the extraction of the declarations and definitions of a      *)
(* module.  A module is the sequence of its units after the header line.   *)
(***************************************************************************)
VariableDeclaration(names) == [type |-> "variable_declaration", names |-> names]
OperatorDefinition(opName, def) ==
    [type |-> "operator_definition", name |-> opName, args |-> <<>>, def |-> def]

\* The body of the loop over the children of the module, for one child.
parseUnit(objs, node) ==
    CASE node.type = "variable_declaration" ->
            [objs EXCEPT !.var_decls = @ \cup Range(node.names)]
      [] node.type = "operator_definition" ->
            [objs EXCEPT !.op_defs =
                [n \in DOMAIN @ \cup {node.name} |->
                    IF n = node.name
                    THEN [name |-> node.name, args |-> node.args, node |-> node.def]
                    ELSE @[n]]]
      [] OTHER -> objs

RECURSIVE parseUnits(_, _)
parseUnits(objs, units) ==
    IF units = <<>> THEN objs ELSE parseUnits(parseUnit(objs, Head(units)), Tail(units))

\* The actions of Next: its disjuncts when it is a disjunction list.
parseActions(op_defs) ==
    IF "Next" \in DOMAIN op_defs
    THEN IF op_defs["Next"].node.type = "disj_list" THEN op_defs["Next"].node.children
         ELSE <<op_defs["Next"].node>>
    ELSE <<>>

\* The loop moves to the next sibling before it reads the current node, and
\* reads the last child once more when there is no next sibling.
parseSpec(units) ==
    LET walked == IF units = <<>> THEN <<>> ELSE units \o <<units[Len(units)]>>
        objs == parseUnits([op_defs |-> <<>>, var_decls |-> {}], walked)
    IN  [err |-> FALSE, op_defs |-> objs.op_defs, var_decls |-> objs.var_decls,
         actions |-> parseActions(objs.op_defs)]

(***************************************************************************)
(* SyntaxRewriter.  The text of a module is modelled by the syntax tree    *)
(* that the parser reads from it, and the text of a node by the node, so   *)
(* that a replacement of the text of a node is a replacement of the node   *)
(* by the tree of the new text.  A tree here is a list of expressions and  *)
(* comments; a quantifier has its bounds as written, each with its         *)
(* identifiers (or one tuple of identifiers) and its domain.               *)
(***************************************************************************)
\* F(v), with v evaluated once.
WithValue(v, F(_)) == CHOOSE r \in DOMAIN BagOfAll(F, SetToBag({v})) : TRUE

Comment == [type |-> "comment"]
BlockComment == [type |-> "block_comment"]
ErrorNode == [type |-> "ERROR"]
Identifier(name) == [type |-> "identifier", text |-> name]
TupleOfIdentifiers(names) == [type |-> "tuple_of_identifiers", names |-> names]
QuantifierBound(vars, domain) == [type |-> "quantifier_bound", vars |-> vars, domain |-> domain]
BoundedQuantification(quantifier, bounds, expr) ==
    [type |-> "bounded_quantification", quantifier |-> quantifier, bounds |-> bounds,
     expr |-> expr]

\* The children of a node that the cursor walks into, in the order of the
\* text.
walked(node) ==
    CASE node.type = "conj_list" -> node.children
      [] node.type = "bound_infix_op" -> <<node.lhs, node.rhs>>
      [] node.type = "parentheses" -> <<node.body>>
      [] node.type = "bound_prefix_op" -> <<node.rhs>>
      [] node.type = "bounded_quantification" ->
            [i \in 1..Len(node.bounds) |-> node.bounds[i].domain] \o <<node.expr>>
      [] OTHER -> <<>>

\* The node with the i-th of these children replaced by the nodes news
\* (none, where a text was erased).
withWalked(node, i, news) ==
    CASE node.type = "conj_list" ->
            [node EXCEPT !.children =
                SubSeq(@, 1, i - 1) \o news \o SubSeq(@, i + 1, Len(@))]
      [] node.type = "bound_infix_op" ->
            IF i = 1 THEN [node EXCEPT !.lhs = news[1]] ELSE [node EXCEPT !.rhs = news[1]]
      [] node.type = "parentheses" -> [node EXCEPT !.body = news[1]]
      [] node.type = "bound_prefix_op" -> [node EXCEPT !.rhs = news[1]]
      [] node.type = "bounded_quantification" ->
            IF i <= Len(node.bounds) THEN [node EXCEPT !.bounds[i].domain = news[1]]
            ELSE [node EXCEPT !.expr = news[1]]

\* quantifierBoundNodes.length === 1 && quantifierBoundNodes[0].namedChildren.length === 3:
\* the named children of a bound are its identifiers, or its tuple of
\* identifiers, the \in and the domain.
isNormalized(node) ==
    Len(node.bounds) = 1 /\ Len(node.bounds[1].vars) + 2 = 3

\* boundNode.namedChildren.filter(c => c.type === "identifier")
quantVars(boundNode) == SelectSeq(boundNode.vars, LAMBDA c : c.type = "identifier")

\* The tree of quantBounds.join(" : ") followed by the rest of the
\* quantifier: one quantifier for each identifier of each bound, nested to
\* the right.
RECURSIVE chainOf(_, _, _)
chainOf(quantifier, pairs, expr) ==
    IF pairs = <<>> THEN expr
    ELSE BoundedQuantification(quantifier,
            <<QuantifierBound(<<Head(pairs)[1]>>, Head(pairs)[2])>>,
            chainOf(quantifier, Tail(pairs), expr))

quantBounds(node) ==
    Concat([i \in 1..Len(node.bounds) |->
        [j \in 1..Len(quantVars(node.bounds[i])) |->
            <<quantVars(node.bounds[i])[j], node.bounds[i].domain>>]])

\* The tree of (\E SETINREWRITEn \in domain : expr = SETINREWRITEn), with ~
\* in front for \notin.
setInRewrite(node, id) ==
    LET newUniqueVarId == "SETINREWRITE" \o ToString(id)
        exists == BoundedQuantification("exists",
                      <<QuantifierBound(<<Identifier(newUniqueVarId)>>, node.rhs)>>,
                      Infix("eq", node.lhs, Id(newUniqueVarId)))
    IN  Paren(IF node.symbol = "notin" THEN Prefix("lnot", Paren(exists)) ELSE Paren(exists))

\* Whether genSyntaxRewrites stops at this node, with a rewrite or an error.
stopsAt(node) ==
    \/ node.type \in {"ERROR", "block_comment", "comment"}
    \/ node.type = "bound_infix_op" /\ node.symbol \in {"in", "notin"}
    \/ node.type = "bounded_quantification" /\ ~isNormalized(node)

\* The walk of the cursor: the path (the indices of the children walked
\* into) to the first node in the order of the text where genSyntaxRewrites
\* stops; found is FALSE when the walk ends without one.
RECURSIVE walk(_)
RECURSIVE walkChildren(_, _)
walk(node) ==
    LET at(n) == IF stopsAt(n) THEN [found |-> TRUE, path |-> <<>>, node |-> n]
                 ELSE walkChildren(walked(n), 1)
    IN  WithValue(node, at)

walkChildren(nodes, i) ==
    IF i > Len(nodes) THEN [found |-> FALSE, path |-> <<>>, node |-> Null]
    ELSE LET under(w) == IF w.found THEN [w EXCEPT !.path = <<i>> \o @]
                         ELSE walkChildren(nodes, i + 1)
         IN  WithValue(walk(nodes[i]), under)

\* genSyntaxRewrites: the batch of rewrites, which has one rewrite or none.
\* A rewrite is the position of a node and the tree of newStr (no tree for
\* the empty string).
genSyntaxRewrites(treeArg, setInUniqueVarId) ==
    LET rewrite(w) ==
            IF ~w.found THEN [err |-> FALSE, sourceRewrites |-> <<>>, used |-> 0]
            ELSE IF w.node.type = "ERROR"
            THEN [err |-> TRUE, sourceRewrites |-> <<>>, used |-> 0]
            ELSE IF w.node.type \in {"block_comment", "comment"}
            THEN [err |-> FALSE, sourceRewrites |-> <<[position |-> w.path, newStr |-> <<>>]>>,
                  used |-> 0]
            ELSE IF w.node.type = "bound_infix_op"
            THEN [err |-> FALSE,
                  sourceRewrites |-> <<[position |-> w.path,
                                        newStr |-> <<setInRewrite(w.node, setInUniqueVarId)>>]>>,
                  used |-> 1]
            ELSE [err |-> FALSE,
                  sourceRewrites |-> <<[position |-> w.path,
                                        newStr |-> <<chainOf(w.node.quantifier,
                                                             quantBounds(w.node),
                                                             w.node.expr)>>]>>,
                  used |-> 0]
    IN  WithValue(walk(treeArg), rewrite)

\* The tree with the node at the position replaced.
RECURSIVE replaceAt(_, _, _)
replaceAt(node, position, news) ==
    LET at(n) ==
            IF Len(position) = 1 THEN withWalked(n, position[1], news)
            ELSE withWalked(n, position[1],
                            <<replaceAt(walked(n)[position[1]], Tail(position), news)>>)
    IN  WithValue(node, at)

\* applySyntaxRewrites: the text with the rewrites of the batch applied.
RECURSIVE applySyntaxRewrites(_, _)
applySyntaxRewrites(specText, rewrites) ==
    IF rewrites = <<>> THEN specText
    ELSE applySyntaxRewrites(replaceAt(specText, Head(rewrites).position, Head(rewrites).newStr),
                             Tail(rewrites))

(***************************************************************************)
(* The values the value operations are applied to.  Every stored order of  *)
(* a set's elements and of a function's domain is a separate value; a set  *)
(* holds no two elements of one fingerprint, as its constructor ensures.   *)
(***************************************************************************)
SeqsUpTo(S, n) == UNION {[1..k -> S] : k \in 0..n}

InjSeqsUpTo(S, n) ==
    {s \in SeqsUpTo(S, n) :
        \A i, j \in 1..Len(s) : i # j => fingerprint(s[i]) # fingerprint(s[j])}

IntVals == {IntValue(i) : i \in 1..MaxInt}
Atoms == IntVals \cup {StringValue("a"), BoolValue(TRUE)}
NestAtoms == {IntValue(1), StringValue("a")}

SetsOver(S, n) == {[kind |-> "set", elems |-> s] : s \in InjSeqsUpTo(S, n)}
TuplesOver(S, n) == {TupleValue(s) : s \in SeqsUpTo(S, n)}
FcnsOver(D, R, n) ==
    UNION {{FcnRcdValue(d, r, FALSE) : r \in [1..Len(d) -> R]} : d \in InjSeqsUpTo(D, n)}
RcdsOver(R) ==
    UNION {{FcnRcdValue(d, r, TRUE) : r \in [1..Len(d) -> R]} :
              d \in InjSeqsUpTo({StringValue("a"), StringValue("b")}, 2)}

FlatSets == SetsOver(Atoms, MaxSetLen)
Tuples == TuplesOver(IntVals \cup {StringValue("a")}, MaxTupleLen)
Fcns == FcnsOver(IntVals, IntVals, MaxSetLen) \cup RcdsOver(IntVals)
NestPool ==
    SetsOver(NestAtoms, MaxNestLen) \cup TuplesOver({IntValue(1)}, MaxNestLen)
        \cup FcnsOver(NestAtoms, {IntValue(1)}, MaxNestLen)
NestedSets == SetsOver(NestPool, MaxNestLen)

Perms(n) == {p \in [1..n -> 1..n] : \A i, j \in 1..n : i # j => p[i] # p[j]}

\* The same set or function with its stored elements, respectively its stored
\* (domain element, value) pairs, in the order p.
Reorder(v, p) ==
    IF v.kind = "set" THEN [v EXCEPT !.elems = [i \in 1..Len(p) |-> v.elems[p[i]]]]
    ELSE [v EXCEPT !.domain = [i \in 1..Len(p) |-> v.domain[p[i]]],
                   !.values = [i \in 1..Len(p) |-> v.values[p[i]]]]

Size(v) == IF v.kind = "fcn" THEN Len(v.domain) ELSE Len(v.elems)

FingerprintInputs ==
    UNION {{[a |-> v, b |-> Null, p |-> q] : q \in Perms(Size(v))} :
              v \in FlatSets \cup Fcns \cup NestedSets}
\* Sets of atoms, and sets of one non-empty set, tuple or function.
SetOpInputs ==
    LET S == FlatSets \cup {v \in NestedSets :
                              Len(v.elems) <= 1 /\ \A i \in 1..Len(v.elems) : Size(v.elems[i]) > 0}
    IN  {[a |-> v, b |-> w, p |-> <<>>] : v \in S, w \in S}
TupleInputs == {[a |-> t, b |-> Null, p |-> <<>>] : t \in Tuples}
\* A set, and a tuple, function or record.
KindInputs ==
    LET S == FlatSets \cup {v \in NestedSets : Len(v.elems) <= 1}
    IN  {[a |-> v, b |-> w, p |-> <<>>] : v \in S, w \in Tuples \cup Fcns}

(***************************************************************************)
(* The modules that are enumerated.  Each declares x and y, and has an     *)
(* Init and a Next built from the forms below.                             *)
(***************************************************************************)
VarX == Id("x")
VarY == Id("y")
Eq(lhs, rhs) == Infix("eq", lhs, rhs)

\* /\ x = a /\ y = 0
InitConj(a) == ConjList(<<Eq(VarX, NatNumber(a)), Eq(VarY, NatNumber(0))>>)
\* /\ (x = a \/ x = b) /\ y = 0
InitLor(a, b) ==
    ConjList(<<Infix("lor", Eq(VarX, NatNumber(a)), Eq(VarX, NatNumber(b))),
               Eq(VarY, NatNumber(0))>>)
\* /\ x \in {a, b} /\ y = 0, as the rewriter leaves it: \E k \in {a, b} : x = k
InitIn(a, b) ==
    ConjList(<<Quant("exists", "k", SetLit(<<NatNumber(a), NatNumber(b)>>), Eq(VarX, Id("k"))),
               Eq(VarY, NatNumber(0))>>)
\* x = a
InitOnlyX(a) == Eq(VarX, NatNumber(a))
\* \/ (/\ x = a /\ y = 0) \/ (/\ x = b /\ y = 0)
InitDisj(a, b) == DisjList(<<InitConj(a), InitConj(b)>>)

InitPreds ==
    {InitConj(a) : a \in 0..1} \cup {InitOnlyX(a) : a \in 0..1}
        \cup {InitLor(a, b) : a, b \in 0..1} \cup {InitIn(a, b) : a, b \in 0..1}
        \cup {InitDisj(a, b) : a, b \in 0..1}

\* /\ x < MaxCount /\ x' = x + 1 /\ UNCHANGED y
ActIncr ==
    ConjList(<<Infix("lt", VarX, NatNumber(MaxCount)),
               Eq(Prime(VarX), Infix("plus", VarX, NatNumber(1))),
               Prefix("unchanged", VarY)>>)
\* /\ x < MaxCount /\ x' \in {x, x + 1} /\ y' = y
ActStepOrStay ==
    ConjList(<<Infix("lt", VarX, NatNumber(MaxCount)),
               Quant("exists", "k", SetLit(<<VarX, Infix("plus", VarX, NatNumber(1))>>),
                     Eq(Prime(VarX), Id("k"))),
               Eq(Prime(VarY), VarY)>>)
\* /\ x' = 0
ActOnlyX == ConjList(<<Eq(Prime(VarX), NatNumber(0))>>)
\* /\ x' = x /\ y' = 1 - y
ActFlip ==
    ConjList(<<Eq(Prime(VarX), VarX), Eq(Prime(VarY), Infix("minus", NatNumber(1), VarY))>>)
\* UNCHANGED <<x, y>>
ActStutter == Prefix("unchanged", TupLit(<<VarX, VarY>>))
\* /\ x > MaxCount /\ x' = 0 /\ y' = 0
ActDisabled ==
    ConjList(<<Infix("gt", VarX, NatNumber(MaxCount)), Eq(Prime(VarX), NatNumber(0)),
               Eq(Prime(VarY), NatNumber(0))>>)
\* /\ x' = x + 1 /\ x' <= MaxCount /\ y' = 0
ActCheck ==
    ConjList(<<Eq(Prime(VarX), Infix("plus", VarX, NatNumber(1))),
               Infix("leq", Prime(VarX), NatNumber(MaxCount)),
               Eq(Prime(VarY), NatNumber(0))>>)
\* /\ x' = 0 /\ y' = 0
ActReset == ConjList(<<Eq(Prime(VarX), NatNumber(0)), Eq(Prime(VarY), NatNumber(0))>>)

Actions == <<ActIncr, ActStepOrStay, ActOnlyX, ActFlip, ActStutter, ActDisabled, ActCheck,
             ActReset>>

\* Next is a disjunction list of one or two of the actions.
NextPreds ==
    {DisjList(<<Actions[i]>>) : i \in 1..Len(Actions)}
        \cup {DisjList(<<Actions[ij[1]], Actions[ij[2]]>>) :
                ij \in {p \in (1..Len(Actions)) \X (1..Len(Actions)) : p[1] # p[2]}}

TreeObjs(init, next) ==
    [var_decls |-> {"x", "y"},
     op_defs |-> [Init |-> [node |-> init], Next |-> [node |-> next]]]

ReachInputs ==
    {[treeObjs |-> TreeObjs(init, next), constvals |-> <<>>] :
        init \in InitPreds, next \in NextPreds}

(***************************************************************************)
(* computeReachableStates, one action for each step of its loop.  pc is    *)
(* "start" before the call, "loop" in the while loop, "done" when the call *)
(* has returned and "error" when it threw.  vout holds the last evaluation *)
(* of Next: the state it started from, the contexts evalExpr returned, and *)
(* the contexts getNextStates returned.                                    *)
(***************************************************************************)
reachVars == <<pc, initStatesOrig, stateQueue, seenStatesHashSet, reachableStates, edges>>

ReachIdle ==
    /\ pc = "none"
    /\ initStatesOrig = <<>>
    /\ stateQueue = <<>>
    /\ seenStatesHashSet = {}
    /\ reachableStates = <<>>
    /\ edges = <<>>

ReachInit ==
    /\ vop = "none"
    /\ vin \in ReachInputs
    /\ vout = Null
    /\ pc = "start"
    /\ initStatesOrig = <<>>
    /\ stateQueue = <<>>
    /\ seenStatesHashSet = {}
    /\ reachableStates = <<>>
    /\ edges = <<>>

\* The value and state of each context of a list.
ValsAndStates(ctxs) == [i \in 1..Len(ctxs) |-> [val |-> ctxs[i].val, state |-> ctxs[i].state]]

\* stateQueue.concat(nextStates) with only the first of the next states.
stateQueue_concat_first(queue, nextStates) ==
    IF nextStates = <<>> THEN queue ELSE queue \o <<Head(nextStates)>>

stateQueue_concat(queue, nextStates) == queue \o nextStates

\* stateQueue.pop() that leaves the state in the queue.
stateQueue_pop_keeps(queue) == queue

\* The queue after let currState = stateQueue.pop().
stateQueue_pop(queue) == SubSeq(queue, 1, Len(queue) - 1)

\* seenStatesHashSet.has(currStateHash) that never finds the hash.
seenStatesHashSet_has_never(set, hash) == FALSE

seenStatesHashSet_has(set, hash) == hash \in set

\* let initStates = this.computeInitStates(treeObjs, constvals); ...
ComputeInit ==
    /\ pc = "start"
    /\ LET started(initStates) ==
               IF initStates.err
               THEN pc' = "error" /\ UNCHANGED <<initStatesOrig, stateQueue>>
               ELSE /\ pc' = "loop"
                    /\ initStatesOrig' = initStates.states
                    /\ stateQueue' = initStates.states
           computed(arg) == computeInitStates(arg.treeObjs, arg.constvals)
       IN  started(WithValue(vin, computed))
    /\ UNCHANGED <<vop, vin, vout, seenStatesHashSet, reachableStates, edges>>

\* One iteration of while (stateQueue.length > 0).
LoopIteration ==
    /\ pc = "loop"
    /\ stateQueue # <<>>
    /\ LET currState == stateQueue[Len(stateQueue)]
           popped == stateQueue_pop(stateQueue)
           defns == vin.treeObjs.op_defs
           deprimed(ctxs) == [i \in 1..Len(ctxs) |-> deprimeVars(ctxs[i].state)]
           enqueued(nextStates) ==
               /\ stateQueue' = stateQueue_concat(popped, nextStates)
               /\ edges' = edges \o [i \in 1..Len(nextStates) |->
                                           <<currState, nextStates[i]>>]
           visited(currStateHash, raw, next, nextStates) ==
               IF seenStatesHashSet_has(seenStatesHashSet, currStateHash)
               THEN /\ stateQueue' = popped
                    /\ UNCHANGED <<vop, vout, pc, seenStatesHashSet,
                                   reachableStates, edges>>
               ELSE /\ seenStatesHashSet' = seenStatesHashSet \cup {currStateHash}
                    /\ reachableStates' = Append(reachableStates, currState)
                    /\ vop' = "next"
                    /\ vout' = [from |-> currState, rawErr |-> raw.err,
                                raw |-> ValsAndStates(raw.ctxs), err |-> next.err,
                                ret |-> ValsAndStates(next.ctxs)]
                    /\ IF next.err
                       THEN /\ pc' = "error"
                            /\ stateQueue' = popped
                            /\ UNCHANGED edges
                       ELSE /\ pc' = "loop"
                            /\ enqueued(nextStates)
           \* currState.fingerprint(), the evaluation of Next from the state,
           \* this.computeNextStates(treeObjs, constvals, [currState]),
           \* and nextStates.map(c => c["state"].deprimeVars()).
           computed(arg) ==
               LET mapped(raw, next) ==
                       [throws |-> FALSE, hash |-> TLAState_fingerprint(arg.state),
                        raw |-> raw, next |-> next, nextStates |-> deprimed(next.ctxs)]
               IN  IF TLAState_fingerprintThrows(arg.state) THEN [throws |-> TRUE]
                   ELSE mapped(evalExpr(arg.defns["Next"].node,
                                        nextInitCtx(arg.state, arg.defns, arg.constvals)),
                               computeNextStates(arg.treeObjs, arg.constvals,
                                                 <<arg.state>>))
           iterated(c) ==
               IF c.throws
               THEN /\ pc' = "error"
                    /\ stateQueue' = popped
                    /\ UNCHANGED <<vop, vout, seenStatesHashSet, reachableStates, edges>>
               ELSE visited(c.hash, c.raw, c.next, c.nextStates)
       IN  iterated(WithValue([treeObjs |-> vin.treeObjs, defns |-> defns,
                               constvals |-> vin.constvals, state |-> currState],
                              computed))
    /\ UNCHANGED <<vin, initStatesOrig>>

\* return {"initStates": initStatesOrig, "states": reachableStates, "edges": edges}
Return ==
    /\ pc = "loop"
    /\ stateQueue = <<>>
    /\ pc' = "done"
    /\ UNCHANGED <<vop, vin, vout, initStatesOrig, stateQueue, seenStatesHashSet,
                   reachableStates, edges>>

ReachNext == ComputeInit \/ LoopIteration \/ Return

SpecReach == ReachInit /\ [][ReachNext]_modelVars

\* The call runs to completion: while the loop has a step to take, it takes
\* one.
SpecReachFair == ReachInit /\ [][ReachNext]_modelVars /\ WF_modelVars(ReachNext)

(***************************************************************************)
(* evalExpr applied to an equation and to a CHOOSE, in contexts drawn at   *)
(* the start.                                                              *)
(***************************************************************************)
\* The initial states of the modules, from which Next is evaluated first.
InitStatesOfModules ==
    UNION {Range(computeInitStates(TreeObjs(init, ActReset), <<>>).states) : init \in InitPreds}

SetOf12 == SetValue(<<IntValue(1), IntValue(2)>>)

\* Contexts of a next-state evaluation: the context getNextStates starts
\* with, after it has assigned none, one or both of the primed variables.
NextCtxs ==
    {[nextInitCtx(s, <<>>, <<>>) EXCEPT !.state = [@ EXCEPT !["x'"] = px, !["y'"] = py]] :
        s \in InitStatesOfModules,
        px \in {Null, IntValue(0), IntValue(1), SetOf12},
        py \in {Null, IntValue(0)}}

\* Contexts of an evaluation of Init: the context getInitStates starts with,
\* after it has assigned none, one or both of the variables.
InitCtxs ==
    {Context(Null, [v \in {"x", "y"} |-> IF v = "x" THEN sx ELSE sy], <<>>, <<>>, <<>>, Undefined) :
        sx \in {Null, IntValue(0), SetOf12}, sy \in {Null, IntValue(0)}}

RhsNodes ==
    {NatNumber(0), NatNumber(1), VarX, VarY, Infix("plus", VarX, NatNumber(1)),
     SetLit(<<NatNumber(1), NatNumber(2)>>), SetLit(<<NatNumber(2), NatNumber(1)>>),
     Prime(VarY)}

EvalEqInputs ==
    {[node |-> Eq(lhs, rhs), alt |-> Null, ctx |-> ctx] :
        lhs \in {Prime(VarX), Prime(VarY)}, rhs \in RhsNodes, ctx \in NextCtxs}
    \cup
    {[node |-> Eq(lhs, rhs), alt |-> Null, ctx |-> ctx] :
        lhs \in {VarX, VarY}, rhs \in RhsNodes, ctx \in InitCtxs}

\* CHOOSE v \in {e1, ..., en} : cond, and the same with the elements in
\* another order.
LitNodes == {NatNumber(n) : n \in 0..MaxInt} \cup {Str("a")}
CondNodes ==
    {Boolean(TRUE), Infix("neq", Id("v"), NatNumber(1)), Infix("neq", Id("v"), Str("a"))}

EvalChooseInputs ==
    UNION {{[node |-> Choose("v", SetLit(es), cond),
             alt |-> Choose("v", SetLit([i \in 1..Len(es) |-> es[p[i]]]), cond),
             ctx |-> Context(Null, [v \in {"x", "y"} |-> Null], <<>>, <<>>, <<>>, Undefined)] :
                p \in Perms(Len(es)), cond \in CondNodes} :
           es \in SeqsUpTo(LitNodes, MaxSetLen)}

\* A context of an evaluation whose state binds x to the value fn.
CtxWithX(fn) ==
    Context(Null, [v \in {"x", "y"} |-> IF v = "x" THEN fn ELSE IntValue(0)],
            <<>>, <<>>, <<>>, Undefined)

\* The functions, records and tuples that x is bound to: <<0, 0>>, <<1, 2>>,
\* [a |-> 0, b |-> 1] and (1 :> (1 :> 0 @@ 2 :> 1)).
FnVals ==
    {TupleValue(<<IntValue(0), IntValue(0)>>),
     TupleValue(<<IntValue(1), IntValue(2)>>),
     FcnRcdValue(<<StringValue("a"), StringValue("b")>>, <<IntValue(0), IntValue(1)>>, TRUE),
     FcnRcdValue(<<IntValue(1)>>,
                 <<FcnRcdValue(<<IntValue(1), IntValue(2)>>, <<IntValue(0), IntValue(1)>>,
                               FALSE)>>, FALSE)}

\* The updates ![1], ![2], ![1][1] and !.a, to 5, to @ + 1 and to @.
UpdateSpecs ==
    {<<ExceptFnAppl(NatNumber(1))>>, <<ExceptFnAppl(NatNumber(2))>>,
     <<ExceptFnAppl(NatNumber(1)), ExceptFnAppl(NatNumber(1))>>, <<ExceptRecordField("a")>>}
NewVals == {NatNumber(5), Infix("plus", PrevFuncVal, NatNumber(1)), PrevFuncVal}
ExceptUpdates == {ExceptUpdate(p, e) : p \in UpdateSpecs, e \in NewVals}

\* [[f EXCEPT !p1 = e1] EXCEPT !p2 = e2] ..., one EXCEPT for each update.
RECURSIVE NestedExcept(_, _)
NestedExcept(lExpr, updates) ==
    IF updates = <<>> THEN lExpr
    ELSE NestedExcept(Except(lExpr, <<Head(updates)>>), Tail(updates))

\* [x EXCEPT !p1 = e1, ..., !pn = en], and the same updates nested.
EvalExceptInputs ==
    {[node |-> Except(VarX, us), alt |-> NestedExcept(VarX, us), ctx |-> CtxWithX(fn)] :
        us \in SeqsUpTo(ExceptUpdates, MaxUpdates) \ {<<>>}, fn \in FnVals}

\* x[e], and x[e1, e2].
FnArgNodes == {NatNumber(n) : n \in 0..MaxInt + 1} \cup {Str("a"), Str("c")}
EvalFunctionEvaluationInputs ==
    {[node |-> FunctionEvaluation(VarX, args), alt |-> Null, ctx |-> CtxWithX(fn)] :
        args \in {<<a>> : a \in FnArgNodes} \cup {<<NatNumber(1), NatNumber(1)>>},
        fn \in FnVals}

\* a..b, for integers written n and -n.
IntNodes ==
    {NatNumber(n) : n \in 0..MaxInt + 1} \cup {Prefix("negative", NatNumber(n)) : n \in 1..MaxInt}
EvalDotsInputs ==
    {[node |-> Infix("dots_2", a, b), alt |-> Null, ctx |-> CtxWithX(IntValue(0))] :
        a \in IntNodes, b \in IntNodes}

\* The arithmetic, comparison and boolean operators, applied to an integer, a
\* string, a boolean and a set.
OperandNodes ==
    {NatNumber(1), NatNumber(2), Str("a"), Boolean(TRUE), Boolean(FALSE),
     SetLit(<<NatNumber(1)>>)}
InfixSymbols == {"mul", "plus", "minus", "gt", "lt", "geq", "leq", "mod", "implies"}
PrefixSymbols == {"negative", "lnot"}
EvalInfixInputs ==
    {[node |-> Infix(symbol, a, b), alt |-> Null, ctx |-> CtxWithX(IntValue(0))] :
        symbol \in InfixSymbols, a \in OperandNodes, b \in OperandNodes}
EvalPrefixInputs ==
    {[node |-> Prefix(symbol, a), alt |-> Null, ctx |-> CtxWithX(IntValue(0))] :
        symbol \in PrefixSymbols, a \in OperandNodes}

\* Contexts of a next-state evaluation from the states x = 0, y = 0 and
\* x = 1, y = 0, with x' unassigned or 1.
DisjCtxs ==
    {[nextInitCtx([v \in {"x", "y"} |-> IF v = "x" THEN IntValue(n) ELSE IntValue(0)],
                  <<>>, <<>>) EXCEPT !.state["x'"] = px] :
        n \in 0..1, px \in {Null, IntValue(1)}}

\* The disjuncts: TRUE, FALSE, x > 0, x' = 1, x' = x + 1, UNCHANGED x,
\* /\ UNCHANGED x /\ y' = 0 and /\ x' = 1 /\ FALSE.
DisjunctNodes ==
    {Boolean(TRUE), Boolean(FALSE), Infix("gt", VarX, NatNumber(0)),
     Eq(Prime(VarX), NatNumber(1)), Eq(Prime(VarX), Infix("plus", VarX, NatNumber(1))),
     Prefix("unchanged", VarX),
     ConjList(<<Prefix("unchanged", VarX), Eq(Prime(VarY), NatNumber(0))>>),
     ConjList(<<Eq(Prime(VarX), NatNumber(1)), Boolean(FALSE)>>)}

Reverse(s) == [i \in 1..Len(s) |-> s[Len(s) + 1 - i]]

\* A disjunction list and an infix disjunction, and the same with the
\* disjuncts in the reverse order.
EvalDisjunctionInputs ==
    {[node |-> DisjList(ds), alt |-> DisjList(Reverse(ds)), ctx |-> ctx] :
        ds \in SeqsUpTo(DisjunctNodes, MaxDisjuncts) \ {<<>>}, ctx \in DisjCtxs}
    \cup
    {[node |-> Infix("lor", a, b), alt |-> Infix("lor", b, a), ctx |-> ctx] :
        a \in DisjunctNodes, b \in DisjunctNodes, ctx \in DisjCtxs}

\* \A v \in {e1, ..., en} : P and \E v \in {e1, ..., en} : P, for P one of
\* TRUE, FALSE, v # 1, v < 2, x' = v and /\ x' = v /\ v # 1.
PureBodies ==
    {Boolean(TRUE), Boolean(FALSE), Infix("neq", Id("v"), NatNumber(1)),
     Infix("lt", Id("v"), NatNumber(2))}
QuantBodies ==
    PureBodies \cup
    {Eq(Prime(VarX), Id("v")),
     ConjList(<<Eq(Prime(VarX), Id("v")), Infix("neq", Id("v"), NatNumber(1))>>)}
EvalQuantInputs ==
    {[node |-> Quant(q, "v", SetLit(es), body),
      alt |-> Quant(q, "v", SetLit(Reverse(es)), body), ctx |-> ctx] :
        q \in {"forall", "exists"},
        es \in SeqsUpTo({NatNumber(n) : n \in 0..MaxInt}, MaxSetLen),
        body \in QuantBodies, ctx \in DisjCtxs}

EvalInit ==
    /\ vop = "none"
    /\ vin \in EvalEqInputs \cup EvalChooseInputs \cup EvalExceptInputs
                \cup EvalFunctionEvaluationInputs \cup EvalDotsInputs
                \cup EvalInfixInputs \cup EvalPrefixInputs
                \cup EvalDisjunctionInputs \cup EvalQuantInputs
    /\ vout = Null
    /\ ReachIdle

\* evalExpr of an equation.
ApplyEvalEq ==
    /\ vop = "none"
    /\ vin.node.type = "bound_infix_op"
    /\ vin.node.symbol = "eq"
    /\ vop' = "evalEq"
    /\ vout' = LET result(r) == [err |-> r.err, ctxs |-> ValsAndStates(r.ctxs)]
               IN  result(evalExpr(vin.node, vin.ctx))
    /\ UNCHANGED <<vin, reachVars>>

\* evalExpr of a CHOOSE, and of the same CHOOSE over the reordered set.
ApplyEvalChoose ==
    /\ vop = "none"
    /\ vin.node.type = "choose"
    /\ vop' = "evalChoose"
    /\ vout' = LET result(r, ralt) ==
                       [err |-> r.err, ctxs |-> ValsAndStates(r.ctxs),
                        altErr |-> ralt.err, altCtxs |-> ValsAndStates(ralt.ctxs)]
               IN  result(evalExpr(vin.node, vin.ctx), evalExpr(vin.alt, vin.ctx))
    /\ UNCHANGED <<vin, reachVars>>

\* evalExpr of an EXCEPT, and of the same updates nested.
ApplyEvalExcept ==
    /\ vop = "none"
    /\ vin.node.type = "except"
    /\ vop' = "evalExcept"
    /\ vout' = LET result(r, ralt) ==
                       [err |-> r.err, ctxs |-> ValsAndStates(r.ctxs),
                        altErr |-> ralt.err, altCtxs |-> ValsAndStates(ralt.ctxs)]
               IN  result(evalExpr(vin.node, vin.ctx), evalExpr(vin.alt, vin.ctx))
    /\ UNCHANGED <<vin, reachVars>>

\* evalExpr of a function evaluation.
ApplyEvalFunctionEvaluation ==
    /\ vop = "none"
    /\ vin.node.type = "function_evaluation"
    /\ vop' = "evalFunctionEvaluation"
    /\ vout' = LET result(r) == [err |-> r.err, ctxs |-> ValsAndStates(r.ctxs)]
               IN  result(evalExpr(vin.node, vin.ctx))
    /\ UNCHANGED <<vin, reachVars>>

\* evalExpr of an infix operator other than =.
ApplyEvalBoundInfix ==
    /\ vop = "none"
    /\ vin.node.type = "bound_infix_op"
    /\ vin.node.symbol \notin {"eq", "lor"}
    /\ vop' = "evalBoundInfix"
    /\ vout' = LET result(r) == [err |-> r.err, ctxs |-> ValsAndStates(r.ctxs)]
               IN  result(evalExpr(vin.node, vin.ctx))
    /\ UNCHANGED <<vin, reachVars>>

\* evalExpr of a prefix operator.
ApplyEvalBoundPrefix ==
    /\ vop = "none"
    /\ vin.node.type = "bound_prefix_op"
    /\ vop' = "evalBoundPrefix"
    /\ vout' = LET result(r) == [err |-> r.err, ctxs |-> ValsAndStates(r.ctxs)]
               IN  result(evalExpr(vin.node, vin.ctx))
    /\ UNCHANGED <<vin, reachVars>>

\* The elements of the domain {e1, ..., en} of a quantifier.
DomainElems(node) ==
    SetValue([i \in 1..Len(node.children) |-> IntValue(node.children[i].num)]).elems

\* The contexts of the sub-branches of a disjunction as the construct evaluates
\* them, in the order of the evaluation.
subBranches(node, ctx) ==
    LET ofEach(each) == [err |-> each.err, ctxs |-> Concat(each.rets)]
        ofOnEach(rets) ==
            [err |-> \E i \in 1..Len(rets) : rets[i].err,
             ctxs |-> Concat([i \in 1..Len(rets) |-> rets[i].ctxs])]
        bound(elems) == [i \in 1..Len(elems) |-> clone(withBoundVar(ctx, node.ident, elems[i]))]
    IN  IF node.type = "bounded_quantification"
        THEN ofOnEach(evalOnEach(node.expr, bound(DomainElems(node.domain))))
        ELSE ofEach(evalEach(IF node.type = "disj_list" THEN node.children
                             ELSE <<node.lhs, node.rhs>>, ctx))

\* What an evaluation of a disjunctive construct leaves: the result, the
\* context of the caller after the call, the sub-branch contexts, and the
\* result for the construct in the other order.
Evaluated(r, sub, ralt) ==
    [err |-> r.err, ctxs |-> ValsAndStates(r.ctxs),
     ctx |-> [val |-> r.ctx.val, state |-> r.ctx.state],
     subErr |-> sub.err, subCtxs |-> ValsAndStates(sub.ctxs),
     altErr |-> ralt.err, altCtxs |-> ValsAndStates(ralt.ctxs)]

\* evalExpr of a disjunction list, and of an infix disjunction.
ApplyEvalDisjunction ==
    /\ vop = "none"
    /\ \/ vin.node.type = "disj_list"
       \/ vin.node.type = "bound_infix_op" /\ vin.node.symbol = "lor"
    /\ vop' = IF vin.node.type = "disj_list" THEN "evalDisjList" ELSE "evalLor"
    /\ vout' = Evaluated(evalExpr(vin.node, vin.ctx), subBranches(vin.node, vin.ctx),
                         evalExpr(vin.alt, vin.ctx))
    /\ UNCHANGED <<vin, reachVars>>

\* evalExpr of a bounded quantifier.
ApplyEvalBoundedQuantification ==
    /\ vop = "none"
    /\ vin.node.type = "bounded_quantification"
    /\ vop' = "evalBoundedQuantification"
    /\ vout' = Evaluated(evalExpr(vin.node, vin.ctx), subBranches(vin.node, vin.ctx),
                         evalExpr(vin.alt, vin.ctx))
    /\ UNCHANGED <<vin, reachVars>>

EvalNext ==
    \/ ApplyEvalEq
    \/ ApplyEvalChoose
    \/ ApplyEvalExcept
    \/ ApplyEvalFunctionEvaluation
    \/ ApplyEvalBoundInfix
    \/ ApplyEvalBoundPrefix
    \/ ApplyEvalDisjunction
    \/ ApplyEvalBoundedQuantification

SpecEval == EvalInit /\ [][EvalNext]_modelVars

(***************************************************************************)
(* parseSpec applied to a module drawn at the start.                       *)
(***************************************************************************)
UnitNodes ==
    {VariableDeclaration(<<"x">>), VariableDeclaration(<<"x", "y">>)}
    \cup {OperatorDefinition(n, def) :
            n \in {"Init", "Next", "Inv"},
            def \in {Eq(VarX, NatNumber(0)), Eq(VarX, NatNumber(1))}}
    \cup {OperatorDefinition("Next", DisjList(<<Eq(Prime(VarX), NatNumber(0)),
                                               Eq(Prime(VarX), VarX)>>))}
ParseInputs == SeqsUpTo(UnitNodes, MaxUnits)

ParseInit ==
    /\ vop = "none"
    /\ vin \in ParseInputs
    /\ vout = Null
    /\ ReachIdle

ApplyParseSpec ==
    /\ vop = "none"
    /\ vop' = "parseSpec"
    /\ vout' = parseSpec(vin)
    /\ UNCHANGED <<vin, reachVars>>

ParseNext == ApplyParseSpec

SpecParse == ParseInit /\ [][ParseNext]_modelVars

(***************************************************************************)
(* Evaluations of predicates and expressions over the state variables x    *)
(* and y.                                                                  *)
(***************************************************************************)

\* The conjuncts: TRUE, FALSE, x > 0, x' = 1, x' = x + 1, UNCHANGED x,
\* y' = x', x' = 1 \/ x' = 2 as a list, and y' = 0 \/ y' = 1.
ConjunctNodes ==
    {Boolean(TRUE), Boolean(FALSE), Infix("gt", VarX, NatNumber(0)),
     Eq(Prime(VarX), NatNumber(1)), Eq(Prime(VarX), Infix("plus", VarX, NatNumber(1))),
     Prefix("unchanged", VarX), Eq(Prime(VarY), Prime(VarX)),
     DisjList(<<Eq(Prime(VarX), NatNumber(1)), Eq(Prime(VarX), NatNumber(2))>>),
     Infix("lor", Eq(Prime(VarY), NatNumber(0)), Eq(Prime(VarY), NatNumber(1)))}

\* A conjunction list and an infix conjunction.
EvalConjunctionInputs ==
    {[node |-> ConjList(cs), alt |-> Null, ctx |-> ctx] :
        cs \in SeqsUpTo(ConjunctNodes, MaxConjuncts) \ {<<>>}, ctx \in DisjCtxs}
    \cup
    {[node |-> Infix("land", a, b), alt |-> Null, ctx |-> ctx] :
        a \in ConjunctNodes, b \in ConjunctNodes, ctx \in DisjCtxs}

\* Contexts of a next-state evaluation with x' and y' assigned, and the
\* definition Op == x + 1.
PrimedCtxs ==
    {[nextInitCtx([v \in {"x", "y"} |-> IF v = "x" THEN IntValue(n) ELSE IntValue(0)],
                  [Op |-> [node |-> Infix("plus", VarX, NatNumber(1))]], <<>>)
        EXCEPT !.state["x'"] = IntValue(px), !.state["y'"] = IntValue(1)] :
        n \in 0..1, px \in 0..MaxInt}

\* The expressions that are primed: x, (x), x + 1, <<x, y>>, {x}, Op,
\* IF TRUE THEN x ELSE 0, IF x > 0 THEN 1 ELSE 0, x = 1,
\* \E v \in {1, 2} : v = x, \A v \in {1, 2} : v = x and
\* CHOOSE v \in {0, 1, 2} : v = x.
PrimedBodies ==
    {VarX, Paren(VarX), Infix("plus", VarX, NatNumber(1)), TupLit(<<VarX, VarY>>),
     SetLit(<<VarX>>), Id("Op"),
     IfThenElse(Boolean(TRUE), VarX, NatNumber(0)),
     IfThenElse(Infix("gt", VarX, NatNumber(0)), NatNumber(1), NatNumber(0)),
     Eq(VarX, NatNumber(1)),
     Quant("exists", "v", SetLit(<<NatNumber(1), NatNumber(2)>>), Eq(Id("v"), VarX)),
     Quant("forall", "v", SetLit(<<NatNumber(1), NatNumber(2)>>), Eq(Id("v"), VarX)),
     Choose("v", SetLit(<<NatNumber(0), NatNumber(1), NatNumber(2)>>), Eq(Id("v"), VarX))}

\* e', and e for the evaluation in the state that the primed variables
\* describe.
EvalPrimedInputs ==
    {[node |-> Prime(e), alt |-> e, ctx |-> ctx] : e \in PrimedBodies, ctx \in PrimedCtxs}

PredInit ==
    /\ vop = "none"
    /\ vin \in EvalConjunctionInputs \cup EvalPrimedInputs
    /\ vout = Null
    /\ ReachIdle

\* The conjuncts of a conjunction, left to right.
Conjuncts(node) ==
    IF node.type = "conj_list" THEN node.children ELSE <<node.lhs, node.rhs>>

\* One conjunct evaluated once on each branch, in the order of the branches:
\* a result has the value of the branch AND the value of the conjunct, and
\* the state the conjunct left.  With skipFalse, a branch that is FALSE is
\* kept as it is and the conjunct is not evaluated on it.
RECURSIVE threadOne(_, _, _)
threadOne(conj, branches, skipFalse) ==
    IF branches = <<>> THEN [err |-> FALSE, ctxs |-> <<>>]
    ELSE LET joined(r, rest) == [err |-> rest.err, ctxs |-> r \o rest.ctxs]
             anded(b, ctxs) ==
                 [i \in 1..Len(ctxs) |->
                     [val |-> IF b.val = Null THEN ctxs[i].val
                              ELSE BoolValue(truthy(b.val) /\ truthy(ctxs[i].val)),
                      state |-> ctxs[i].state, ctx |-> ctxs[i]]]
             evaluated(b, r) ==
                 IF r.err \/ \E i \in 1..Len(r.ctxs) : ~hasGetVal(r.ctxs[i].val)
                 THEN [err |-> TRUE, ctxs |-> <<>>]
                 ELSE joined(anded(b, r.ctxs), threadOne(conj, Tail(branches), skipFalse))
         IN  IF skipFalse /\ Head(branches).val = BoolValue(FALSE)
             THEN joined(<<Head(branches)>>, threadOne(conj, Tail(branches), skipFalse))
             ELSE evaluated(Head(branches), evalExpr(conj, Head(branches).ctx))

\* The conjuncts evaluated strictly left to right, each one on every branch
\* the earlier ones produced.
RECURSIVE threadConjuncts(_, _, _)
threadConjuncts(conjs, res, skipFalse) ==
    IF conjs = <<>> \/ res.err THEN res
    ELSE threadConjuncts(Tail(conjs), threadOne(Head(conjs), res.ctxs, skipFalse), skipFalse)

Threaded(conjs, ctx, skipFalse) ==
    LET stripped(res) ==
            [err |-> res.err,
             ctxs |-> [i \in 1..Len(res.ctxs) |->
                          [val |-> res.ctxs[i].val, state |-> res.ctxs[i].state]]]
    IN  stripped(threadConjuncts(conjs,
            [err |-> FALSE, ctxs |-> <<[val |-> Null, state |-> ctx.state, ctx |-> ctx]>>],
            skipFalse))

\* evalExpr of a conjunction list, and of an infix conjunction; with it, the
\* threading of the conjuncts, the threading that leaves FALSE branches as
\* they are, and the branches of the first conjunct.
ApplyEvalConjunction ==
    /\ vop = "none"
    /\ \/ vin.node.type = "conj_list"
       \/ vin.node.type = "bound_infix_op" /\ vin.node.symbol = "land"
    /\ vop' = IF vin.node.type = "conj_list" THEN "evalConjList" ELSE "evalLand"
    /\ vout' = LET result(r, ref, short, first) ==
                       [err |-> r.err, ctxs |-> ValsAndStates(r.ctxs),
                        refErr |-> ref.err, refCtxs |-> ref.ctxs,
                        shortErr |-> short.err, shortCtxs |-> short.ctxs,
                        firstErr |-> first.err, firstCtxs |-> first.ctxs]
               IN  result(evalExpr(vin.node, vin.ctx),
                          Threaded(Conjuncts(vin.node), vin.ctx, FALSE),
                          Threaded(Conjuncts(vin.node), vin.ctx, TRUE),
                          Threaded(<<Head(Conjuncts(vin.node))>>, vin.ctx, FALSE))
    /\ UNCHANGED <<vin, reachVars>>

\* The context with every variable holding the value of its primed copy.
inNextState(ctx) ==
    [ctx EXCEPT !.state = [k \in DOMAIN ctx.state |->
        IF (k \o "'") \in DOMAIN ctx.state THEN ctx.state[k \o "'"] ELSE ctx.state[k]]]

Vals(ctxs) == [i \in 1..Len(ctxs) |-> ctxs[i].val]

\* evalExpr of e', and of e in the state that the primed variables describe.
ApplyEvalBoundPostfix ==
    /\ vop = "none"
    /\ vin.node.type = "bound_postfix_op"
    /\ vop' = "evalBoundPostfix"
    /\ vout' = LET result(r, ralt) ==
                       [err |-> r.err, vals |-> Vals(r.ctxs),
                        altErr |-> ralt.err, altVals |-> Vals(ralt.ctxs)]
               IN  result(evalExpr(vin.node, vin.ctx), evalExpr(vin.alt, inNextState(vin.ctx)))
    /\ UNCHANGED <<vin, reachVars>>

PredNext ==
    \/ ApplyEvalConjunction
    \/ ApplyEvalBoundPostfix

SpecPred == PredInit /\ [][PredNext]_modelVars

(***************************************************************************)
(* doRewrites on a module drawn at the start.                              *)
(***************************************************************************)
IdentNames == <<<<"i", "j", "k">>, <<"u", "v", "w">>, <<"a", "b", "c">>>>

\* The bounds of a quantifier as written: 1..MaxBounds bounds of
\* 1..MaxIdents identifiers each, the first over a domain d and the others
\* over S.
BoundsOver(domains) ==
    {[b \in 1..n |->
        QuantifierBound([j \in 1..m |-> Identifier(IdentNames[b][j])],
                        IF b = 1 THEN d ELSE Id("S"))] :
        n \in 1..MaxBounds, m \in 1..MaxIdents, d \in domains}

\* One bound of a tuple of two identifiers.
TupleBoundsOver(domains) ==
    {<<QuantifierBound(<<TupleOfIdentifiers(<<"i", "j">>)>>, d)>> : d \in domains}

\* x \in S, x \notin S, and the quantifiers over S.
FlatExprs ==
    {Infix("in", VarX, Id("S")), Infix("notin", VarX, Id("S"))}
    \cup {BoundedQuantification("exists", bs, VarX) :
            bs \in BoundsOver({Id("S")}) \cup TupleBoundsOver({Id("S")})}

\* The expressions of a module: the flat ones, \in with a flat expression on
\* a side, and quantifiers whose first domain and body hold a flat
\* expression.
RewriteExprs ==
    LET domains == {Id("S"), Infix("in", VarX, Id("S")),
                    BoundedQuantification("exists",
                        <<QuantifierBound(<<Identifier("i"), Identifier("j")>>, Id("S"))>>,
                        VarX)}
        bodies == {VarX, Infix("notin", VarX, Id("S"))}
    IN  {VarX} \cup FlatExprs
        \cup {Infix("in", e, Id("S")) : e \in FlatExprs}
        \cup {Infix("in", VarX, e) : e \in FlatExprs}
        \cup {BoundedQuantification(q, bs, body) :
                q \in {"exists", "forall"},
                bs \in BoundsOver(domains) \cup TupleBoundsOver(domains),
                body \in bodies}

\* A module: an expression, alone or before or after a comment, an
\* expression or an error node.
RewriteInputs ==
    {ConjList(<<e>>) : e \in RewriteExprs}
    \cup {ConjList(<<e, c>>) : e \in RewriteExprs,
            c \in {Comment, BlockComment, ErrorNode, Infix("in", VarX, Id("S"))}}
    \cup {ConjList(<<c, e>>) : e \in RewriteExprs, c \in {Comment, BlockComment}}

RewriteInit ==
    /\ vop = "none"
    /\ vin \in {[origSpecText |-> t] : t \in RewriteInputs}
    /\ vout = [specTextRewritten |-> vin.origSpecText, rewriteBatch |-> <<>>,
               setInUniqueVarId |-> 0]
    /\ ReachIdle

\* parser.parse and genSyntaxRewrites, before the loop and at the end of its
\* body.
GenSyntaxRewrites ==
    /\ vop \in {"none", "applySyntaxRewrites"}
    /\ LET gen == genSyntaxRewrites(vout.specTextRewritten, vout.setInUniqueVarId)
       IN  /\ ~gen.err
           /\ vout' = [vout EXCEPT !.rewriteBatch = gen.sourceRewrites,
                                   !.setInUniqueVarId = @ + gen.used]
    /\ vop' = "genSyntaxRewrites"
    /\ UNCHANGED <<vin, reachVars>>

\* genSyntaxRewrites that meets an error node first: throw new Error("Parsing error.").
GenSyntaxRewritesThrows ==
    /\ vop \in {"none", "applySyntaxRewrites"}
    /\ genSyntaxRewrites(vout.specTextRewritten, vout.setInUniqueVarId).err
    /\ vop' = "throw"
    /\ UNCHANGED <<vin, vout, reachVars>>

\* The first statement of the body of the loop.
ApplySyntaxRewrites ==
    /\ vop = "genSyntaxRewrites"
    /\ Len(vout.rewriteBatch) > 0
    /\ vout' = [vout EXCEPT !.specTextRewritten = applySyntaxRewrites(@, vout.rewriteBatch)]
    /\ vop' = "applySyntaxRewrites"
    /\ UNCHANGED <<vin, reachVars>>

\* return specTextRewritten
DoRewritesReturn ==
    /\ vop = "genSyntaxRewrites"
    /\ Len(vout.rewriteBatch) = 0
    /\ vop' = "return"
    /\ UNCHANGED <<vin, vout, reachVars>>

RewriteNext ==
    \/ GenSyntaxRewrites
    \/ GenSyntaxRewritesThrows
    \/ ApplySyntaxRewrites
    \/ DoRewritesReturn

\* doRewrites runs its statements one after the other.
SpecRewrite == RewriteInit /\ [][RewriteNext]_modelVars /\ WF_modelVars(RewriteNext)

(***************************************************************************)
(* The trace explorer of app.js.  vin is the module that is loaded         *)
(* (model.specTreeObjs and model.specConstVals); vout.model holds the      *)
(* fields of the model object that the trace handlers write, and           *)
(* vout.statehash_short the argument of the last chooseNextState.  vop is  *)
(* the handler that ran last.                                              *)
(***************************************************************************)
\* /\ x' = IF x > 0 THEN "a" + 1 ELSE x + 1 /\ UNCHANGED y: its evaluation
\* throws from the states with x > 0.
ActThrows ==
    ConjList(<<Eq(Prime(VarX),
                  IfThenElse(Infix("gt", VarX, NatNumber(0)),
                             Infix("plus", Str("a"), NatNumber(1)),
                             Infix("plus", VarX, NatNumber(1)))),
               Prefix("unchanged", VarY)>>)

TraceActions == <<ActIncr, ActFlip, ActStutter, ActReset, ActThrows>>

TraceNextPreds ==
    {DisjList(<<TraceActions[i]>>) : i \in 1..Len(TraceActions)}
        \cup {DisjList(<<TraceActions[ij[1]], TraceActions[ij[2]]>>) :
                ij \in {p \in (1..Len(TraceActions)) \X (1..Len(TraceActions)) : p[1] < p[2]}}

\* The modules that are loaded: one initial state or two, and one or two
\* actions.
TraceInputs ==
    {[treeObjs |-> TreeObjs(init, next), constvals |-> <<>>] :
        init \in {InitConj(0), InitLor(0, 1), InitLor(0, MaxCount)}, next \in TraceNextPreds}

\* hashSum of a state object whose variables hold numbers, strings, booleans
\* or null: the string of the hash of its keys and of what they hold.
hashSum(state) ==
    LET stateKeys == sortedKeys(DOMAIN state)
        held(v) == IF v = Null THEN <<0, 6>> ELSE hashSumArr(<<hashSumVal(v)>>)
    IN  [kind |-> "hash",
         sum |-> hashSumArr(Concat([i \in 1..Len(stateKeys) |->
                    <<StrChars(stateKeys[i]), held(state[stateKeys[i]])>>]))]

\* model.currTrace.map(s => hashSum(s)).includes(statehash_short) that never
\* finds the hash.
currTrace_includes_never(currTrace, statehash_short) == FALSE

currTrace_includes(currTrace, statehash_short) ==
    \E i \in 1..Len(currTrace) : hashSum(currTrace[i]) = statehash_short

\* The model object as the script creates it.
model_initial ==
    [allInitStates |-> <<>>, currNextStates |-> <<>>, currTrace |-> <<>>,
     lassoTo |-> Null, errorObj |-> Null]

\* showEvalError: model.errorObj = Object.assign(e, ...)
showEvalError(model) == [model EXCEPT !.errorObj = [kind |-> "Error"]]

\* interp.computeNextStates(...).map(c => c["state"].deprimeVars())
nextStatesOf(specTreeObjs, specConstVals, state) ==
    LET mapped(next) ==
            [err |-> next.err,
             states |-> [i \in 1..Len(next.ctxs) |-> deprimeVars(next.ctxs[i].state)]]
    IN  mapped(computeNextStates(specTreeObjs, specConstVals, <<state>>))

reloadSpec(model, specTreeObjs, specConstVals) ==
    LET cleared == [model EXCEPT !.currTrace = <<>>, !.lassoTo = Null, !.errorObj = Null]
        loaded(initStates) ==
            IF initStates.err THEN showEvalError(cleared)
            ELSE [cleared EXCEPT !.allInitStates = initStates.states,
                                 !.currNextStates = initStates.states]
    IN  loaded(computeInitStates(specTreeObjs, specConstVals))

traceStepBack(model, specTreeObjs, specConstVals) ==
    IF model.lassoTo # Null THEN [model EXCEPT !.lassoTo = Null]
    ELSE LET sliced == [model EXCEPT !.currTrace = SubSeq(@, 1, Len(@) - 1)]
             \* An error of computeNextStates leaves the handler here.
             computed(nextStates) ==
                 IF nextStates.err THEN sliced
                 ELSE [sliced EXCEPT !.currNextStates = nextStates.states]
         IN  IF Len(sliced.currTrace) = 0
             THEN reloadSpec(sliced, specTreeObjs, specConstVals)
             ELSE computed(nextStatesOf(specTreeObjs, specConstVals,
                                        sliced.currTrace[Len(sliced.currTrace)]))

chooseNextState(model, specTreeObjs, specConstVals, statehash_short) ==
    LET hasHash(s) == hashSum(s) = statehash_short
        nextStateChoices == SelectSeq(model.currNextStates, hasHash)
        nextState == nextStateChoices[1]
        pushed == [model EXCEPT !.currTrace = Append(@, nextState)]
        \* try { ... } catch (e) { showEvalError(currEvalNode, e); return; }
        computed(nextStates) ==
            IF nextStates.err THEN showEvalError(pushed)
            ELSE [pushed EXCEPT !.currNextStates = nextStates.states]
    IN  IF Len(nextStateChoices) = 0 THEN model
        ELSE IF currTrace_includes(model.currTrace, statehash_short)
        THEN [model EXCEPT !.lassoTo = statehash_short]
        ELSE computed(nextStatesOf(specTreeObjs, specConstVals, nextState))

TraceInit ==
    /\ vop = "none"
    /\ vin \in TraceInputs
    /\ vout = [model |-> model_initial, statehash_short |-> Null]
    /\ ReachIdle

\* The editor reports the text of the module: handleCodeChange ends in
\* reloadSpec.
HandleCodeChange ==
    /\ vop = "none"
    /\ vop' = "reloadSpec"
    /\ vout' = [vout EXCEPT !.model = reloadSpec(@, vin.treeObjs, vin.constvals)]
    /\ UNCHANGED <<vin, reachVars>>

\* A click on one of the states that componentNextStateChoices shows: none
\* is shown while the lasso marker is set.
ChooseNextState ==
    /\ vop # "none"
    /\ vout.model.lassoTo = Null
    /\ \E i \in 1..Len(vout.model.currNextStates) :
          LET hash == hashSum(vout.model.currNextStates[i])
          IN  vout' = [model |-> chooseNextState(vout.model, vin.treeObjs, vin.constvals, hash),
                       statehash_short |-> hash]
    /\ vop' = "chooseNextState"
    /\ UNCHANGED <<vin, reachVars>>

\* A click on Back.
TraceStepBack ==
    /\ vop # "none"
    /\ vop' = "traceStepBack"
    /\ vout' = [vout EXCEPT !.model = traceStepBack(@, vin.treeObjs, vin.constvals)]
    /\ UNCHANGED <<vin, reachVars>>

\* A click on Reset: resetTrace is reloadSpec and the update of the route.
ResetTrace ==
    /\ vop # "none"
    /\ vop' = "resetTrace"
    /\ vout' = [vout EXCEPT !.model = reloadSpec(@, vin.treeObjs, vin.constvals)]
    /\ UNCHANGED <<vin, reachVars>>

TraceNext == HandleCodeChange \/ ChooseNextState \/ TraceStepBack \/ ResetTrace

SpecTrace == TraceInit /\ [][TraceNext]_modelVars

(***************************************************************************)
(* The value operations, applied to inputs drawn at the start.             *)
(***************************************************************************)
ValueInit ==
    /\ vop = "none"
    /\ vin \in FingerprintInputs \cup SetOpInputs \cup TupleInputs \cup KindInputs
    /\ vout = Null
    /\ ReachIdle

\* v.fingerprint() of a set or function and of the same value stored in another order.
ApplyFingerprint ==
    /\ vop = "none"
    /\ vin.a.kind \in {"set", "fcn"}
    /\ vin.b = Null
    /\ vop' = "fingerprint"
    /\ vout' = [fp |-> fingerprint(vin.a), fpReordered |-> fingerprint(Reorder(vin.a, vin.p))]
    /\ UNCHANGED <<vin, reachVars>>

\* a.unionWith(b), a.intersectionWith(b), a.diffWith(b)
ApplySetOps ==
    /\ vop = "none"
    /\ vin.a.kind = "set"
    /\ vin.b.kind = "set"
    /\ vop' = "setops"
    /\ vout' = [cup |-> unionWith(vin.a, vin.b),
                cap |-> intersectionWith(vin.a, vin.b),
                diff |-> diffWith(vin.a, vin.b)]
    /\ UNCHANGED <<vin, reachVars>>

\* t.toFcnRcd().toTuple()
ApplyRoundTrip ==
    /\ vop = "none"
    /\ vin.a.kind = "tuple"
    /\ vop' = "roundtrip"
    /\ vout' = toTuple(toFcnRcd(vin.a))
    /\ UNCHANGED <<vin, reachVars>>

\* a.fingerprint() and b.fingerprint() of a set a and a tuple, function or
\* record b, and the fingerprints of the states x = a and x = b.
ApplyFingerprintKinds ==
    /\ vop = "none"
    /\ vin.a.kind = "set"
    /\ vin.b.kind \in {"tuple", "fcn"}
    /\ vop' = "fingerprintKinds"
    /\ vout' = [fpA |-> fingerprint(vin.a), fpB |-> fingerprint(vin.b),
                stateFpA |-> TLAState_fingerprint([v \in {"x"} |-> vin.a]),
                stateFpB |-> TLAState_fingerprint([v \in {"x"} |-> vin.b])]
    /\ UNCHANGED <<vin, reachVars>>

ValueNext == ApplyFingerprint \/ ApplySetOps \/ ApplyRoundTrip \/ ApplyFingerprintKinds

SpecValue == ValueInit /\ [][ValueNext]_modelVars

(***************************************************************************)
(* Claims about the enumeration of states (checked under SpecReach).       *)
(***************************************************************************)

\* The branches of the last evaluation of Next all carry a value with getVal.
RawIsBoolean ==
    /\ vop = "next"
    /\ ~vout.rawErr
    /\ \A i \in 1..Len(vout.raw) : hasGetVal(vout.raw[i].val)

\* The branch is TRUE.
BranchIsTRUE(c) == c.val.kind = "bool" /\ "val" \in DOMAIN c.val /\ c.val.val

\* The branch assigns the primed copy of every declared variable.
BranchAssignsAll(c) == \A v \in vin.treeObjs.var_decls : c.state[v \o "'"] # Null

\* The branch assigns every primed variable the value of its unprimed variable.
BranchStutters(c) ==
    \A v \in vin.treeObjs.var_decls :
        /\ c.state[v \o "'"] # Null
        /\ fingerprint(c.state[v \o "'"]) = fingerprint(c.state[v])

\* C1: the successors that getNextStates returns are exactly the branches of
\* the evaluation of Next whose value is TRUE and that assign the primed copy
\* of every declared variable, in their order; the other branches are dropped
\* without an error.
C1_SuccessorsAreAssignedTrueBranches ==
    RawIsBoolean =>
        LET kept(c) == BranchIsTRUE(c) /\ BranchAssignsAll(c)
        IN  /\ ~vout.err
            /\ vout.ret = SelectSeq(vout.raw, kept)

\* A TRUE branch that leaves a primed variable unassigned was dropped, and
\* another branch was returned.
C1_Witness ==
    /\ RawIsBoolean
    /\ ~vout.err
    /\ vout.ret # <<>>
    /\ \E i \in 1..Len(vout.raw) :
            BranchIsTRUE(vout.raw[i]) /\ ~BranchAssignsAll(vout.raw[i])

\* C2: when computeReachableStates has returned, every successor that
\* computeNextStates produces from a returned state has the fingerprint of a
\* returned state.
C2_ReachableClosed ==
    pc = "done" =>
        \A k \in 1..Len(reachableStates) :
            LET closed(next) ==
                    \A i \in 1..Len(next.ctxs) :
                        \E m \in 1..Len(reachableStates) :
                            TLAState_fingerprint(reachableStates[m])
                                = TLAState_fingerprint(deprimeVars(next.ctxs[i].state))
            IN  closed(computeNextStates(vin.treeObjs, vin.constvals, <<reachableStates[k]>>))

\* computeReachableStates has returned three states or more, and one of them
\* has two different successors.
C2_Witness ==
    /\ pc = "done"
    /\ Len(reachableStates) >= 3
    /\ \E i, j \in 1..Len(edges) : edges[i][1] = edges[j][1] /\ edges[i][2] # edges[j][2]

\* C3: no two of the initial states that computeInitStates returns have the
\* same fingerprint.
C3_InitStatesDistinct ==
    \A i, j \in 1..Len(initStatesOrig) :
        (/\ i # j
         /\ ~TLAState_fingerprintThrows(initStatesOrig[i])
         /\ ~TLAState_fingerprintThrows(initStatesOrig[j]))
            => TLAState_fingerprint(initStatesOrig[i]) # TLAState_fingerprint(initStatesOrig[j])

\* C4: every initial state that computeInitStates returns binds every
\* declared variable to a value.
C4_InitStatesTotal ==
    \A i \in 1..Len(initStatesOrig) :
        \A v \in vin.treeObjs.var_decls :
            hasVar(initStatesOrig[i], v) /\ getVarVal(initStatesOrig[i], v) # Null

\* C5: a TRUE branch that assigns every primed variable the value of its
\* unprimed variable is among the successors that getNextStates returns.
C5_StutteringSuccessorKept ==
    RawIsBoolean =>
        \A i \in 1..Len(vout.raw) :
            (BranchIsTRUE(vout.raw[i]) /\ BranchStutters(vout.raw[i]))
                => \E j \in 1..Len(vout.ret) : vout.ret[j] = vout.raw[i]

\* getNextStates returned a successor that equals the state it started from,
\* and one that differs from it.
C5_Witness ==
    /\ RawIsBoolean
    /\ ~vout.err
    /\ \E j \in 1..Len(vout.ret) : BranchStutters(vout.ret[j])
    /\ \E j \in 1..Len(vout.ret) : ~BranchStutters(vout.ret[j])

(***************************************************************************)
(* Claims about the evaluation of expressions (checked under SpecEval).    *)
(***************************************************************************)

\* C6: x = e, with x a primed variable while Next is evaluated or an unprimed
\* variable while Init is evaluated, and e with one value: when x is not
\* assigned the result is one context with the value TRUE and the state of
\* the input with x bound to the value of e; when x is assigned the result is
\* one context with the state of the input, and its value is TRUE exactly
\* when the value of x and the value of e have the same fingerprint.
C6_EqAssignsOrCompares ==
    (/\ vop = "evalEq"
     /\ \/ vin.node.lhs.type = "bound_postfix_op" /\ vin.ctx.ASSIGN_PRIMED
        \/ vin.node.lhs.type = "identifier_ref" /\ ~vin.ctx.ASSIGN_PRIMED) =>
        LET x == text(vin.node.lhs)
            holds(e) ==
                (~e.err /\ Len(e.ctxs) = 1 /\ canFingerprint(e.ctxs[1].val)) =>
                    /\ ~vout.err
                    /\ Len(vout.ctxs) = 1
                    /\ IF vin.ctx.state[x] = Null
                       THEN /\ vout.ctxs[1].val = BoolValue(TRUE)
                            /\ vout.ctxs[1].state = [vin.ctx.state EXCEPT ![x] = e.ctxs[1].val]
                       ELSE /\ vout.ctxs[1].state = vin.ctx.state
                            /\ vout.ctxs[1].val =
                                    BoolValue(fingerprint(vin.ctx.state[x])
                                                = fingerprint(e.ctxs[1].val))
        IN  holds(evalExpr(vin.node.rhs, clone(vin.ctx)))

\* C7: CHOOSE v \in S : P returns the element satisfying P whose fingerprint
\* is the first in sorted order, and returns it also when the elements of S
\* are written in another order.
C7_ChooseFirstInFingerprintOrder ==
    vop = "evalChoose" =>
        LET satisfies(r) == ~r.err /\ truthy(r.ctxs[1].val)
            first(S) ==
                \A k \in 1..Len(S.elems) :
                    satisfies(evalExpr(vin.node.condition,
                                       withBoundVar(vin.ctx, vin.node.ident, S.elems[k])))
                        => ~StrLess(fingerprint(S.elems[k]), fingerprint(vout.ctxs[1].val))
        IN  /\ vout.err = vout.altErr
            /\ ~vout.err =>
                /\ first(evalExpr(vin.node.domain, vin.ctx).ctxs[1].val)
                /\ fingerprint(vout.ctxs[1].val) = fingerprint(vout.altCtxs[1].val)

(***************************************************************************)
(* Claims about the value operations (checked under SpecValue).            *)
(***************************************************************************)

\* Membership of a value in a set, by fingerprint.
InSetByFingerprint(e, S) ==
    \E k \in 1..Len(S.elems) : fingerprint(S.elems[k]) = fingerprint(e)

\* C8: the fingerprint of a set, and of a function or record, is the same for
\* every order in which its elements, respectively its (domain element, value)
\* pairs, are stored.
C8_FingerprintOrderInvariant ==
    vop = "fingerprint" => vout.fp = vout.fpReordered

\* A set of sets, tuples or functions was fingerprinted in two different stored orders.
C8_Witness ==
    /\ vop = "fingerprint"
    /\ vin.a.kind = "set"
    /\ Reorder(vin.a, vin.p) # vin.a
    /\ \E i \in 1..Len(vin.a.elems) : vin.a.elems[i].kind \in {"set", "fcn"}

\* C9: an element of A is in A \cap B, and is not in A \ B, exactly when some
\* element of B has its fingerprint.
C9_SetOpsByFingerprint ==
    vop = "setops" =>
        \A i \in 1..Len(vin.a.elems) :
            LET e == vin.a.elems[i]
            IN  /\ InSetByFingerprint(e, vout.cap) <=> InSetByFingerprint(e, vin.b)
                /\ InSetByFingerprint(e, vout.diff) <=> ~InSetByFingerprint(e, vin.b)

\* C10: a tuple converted to a function and back is the tuple it was.
C10_TupleRoundTrip ==
    vop = "roundtrip" =>
        /\ vout.elems = vin.a.elems
        /\ fingerprint(vout) = fingerprint(vin.a)

(***************************************************************************)
(* Claims about functions, operators and disjunctions (checked under       *)
(* SpecEval, SpecReach and SpecParse).                                     *)
(***************************************************************************)

\* The function that x[...] is applied to has the argument in its domain.
ArgInDomain ==
    LET fn == vin.ctx.state["x"]
        args == vin.node.args
        arg == IF Len(args) = 1
               THEN IF args[1].type = "nat_number" THEN IntValue(args[1].num)
                    ELSE StringValue(args[1].str)
               ELSE TupleValue([i \in 1..Len(args) |-> IntValue(args[i].num)])
    IN  IF fn.kind = "tuple" THEN arg.kind = "int" /\ arg.val \in 1..Len(fn.elems)
        ELSE \E i \in 1..Len(fn.domain) : fingerprint(fn.domain[i]) = fingerprint(arg)

\* C11: the updates of an EXCEPT are applied from left to right to a running
\* value, and @ in an update is the value at its path in that running value:
\* [f EXCEPT !p1 = e1, ..., !pn = en] has the value of the nested
\* [[f EXCEPT !p1 = e1] ... EXCEPT !pn = en] whenever the nested form has one.
C11_ExceptOnRunningValue ==
    (vop = "evalExcept" /\ ~vout.altErr) =>
        /\ ~vout.err
        /\ vout.ctxs = vout.altCtxs

\* C13: a function, record or tuple applied to an argument that is not in
\* its domain fails with an error.
C13_ApplyOutsideDomainFails ==
    (vop = "evalFunctionEvaluation" /\ ~ArgInDomain) => vout.err

\* The integer that a node of IntNodes denotes.
IntOf(node) == IF node.type = "nat_number" THEN node.num ELSE 0 - node.rhs.num

\* C12: a..b is the set of exactly the integers i with a <= i <= b, the empty
\* set when a > b.
C12_DotsIsInterval ==
    (vop = "evalBoundInfix" /\ vin.node.symbol = "dots_2") =>
        /\ ~vout.err
        /\ Len(vout.ctxs) = 1
        /\ vout.ctxs[1].val.kind = "set"
        /\ \A e \in Range(vout.ctxs[1].val.elems) : e.kind = "int" /\ ~isNaN(e)
        /\ {e.val : e \in Range(vout.ctxs[1].val.elems)}
               = IntOf(vin.node.lhs)..IntOf(vin.node.rhs)

\* The kind of value that an operand node of OperandNodes denotes.
KindOf(node) ==
    CASE node.type = "nat_number" -> "int"
      [] node.type = "boolean" -> "bool"
      [] node.type = "string" -> "str"
      [] OTHER -> "set"

\* The operator of the node is applied to an operand of the wrong kind.
WrongKind ==
    LET wanted == IF vin.node.symbol \in {"implies", "lnot"} THEN "bool" ELSE "int"
    IN  IF vin.node.type = "bound_infix_op"
        THEN KindOf(vin.node.lhs) # wanted \/ KindOf(vin.node.rhs) # wanted
        ELSE KindOf(vin.node.rhs) # wanted

\* C14: an arithmetic, comparison or boolean operator applied to an operand
\* of the wrong kind fails with an error and returns no result value.
C14_WrongKindFails ==
    (/\ vop \in {"evalBoundInfix", "evalBoundPrefix"}
     /\ vin.node.symbol \in InfixSymbols \cup PrefixSymbols
     /\ WrongKind) => vout.err

\* The number of definitions of the module that are named opName.
NumDefinitions(opName) ==
    Cardinality({i \in 1..Len(vin) :
                    vin[i].type = "operator_definition" /\ vin[i].name = opName})

\* C15: the extraction fails when the module has more than one definition
\* named Init, or more than one named Next.
C15_DuplicateInitNextFails ==
    (vop = "parseSpec" /\ (NumDefinitions("Init") > 1 \/ NumDefinitions("Next") > 1))
        => vout.err

\* C16: no two of the states that computeReachableStates records as reachable
\* have the same fingerprint, and the successors of a fingerprint are computed
\* at most once: they are computed when a state is recorded, and the recorded
\* states are as many as the fingerprints seen.
C16_ReachableDistinct ==
    pc \in {"loop", "done"} =>
        /\ \A i, j \in 1..Len(reachableStates) :
              i # j => TLAState_fingerprint(reachableStates[i])
                        # TLAState_fingerprint(reachableStates[j])
        /\ seenStatesHashSet
              = {TLAState_fingerprint(reachableStates[i]) : i \in 1..Len(reachableStates)}
        /\ Cardinality(seenStatesHashSet) = Len(reachableStates)

\* computeReachableStates has returned two or more states, one of them the
\* successor on two edges.
C16_Witness ==
    /\ pc = "done"
    /\ Len(reachableStates) >= 2
    /\ \E i, j \in 1..Len(edges) :
          /\ i # j
          /\ TLAState_fingerprint(edges[i][2]) = TLAState_fingerprint(edges[j][2])

\* P of PureBodies is true for the integer n as the value of v.
Holds(P, n) ==
    CASE P.type = "boolean" -> P.bool
      [] P.symbol = "neq" -> n # 1
      [] P.symbol = "lt" -> n < 2

\* C17: \A v \in S : P returns exactly one context, with the state of the
\* input context, and with the value TRUE iff P is true for every element of S.
C17_ForallNeverForks ==
    (vop = "evalBoundedQuantification" /\ vin.node.quantifier = "forall") =>
        /\ ~vout.err
        /\ Len(vout.ctxs) = 1
        /\ vout.ctxs[1].state = vin.ctx.state
        /\ vout.ctxs[1].val.kind = "bool"
        /\ vin.node.expr \in PureBodies =>
              vout.ctxs[1].val
                = BoolValue(\A i \in 1..Len(vin.node.domain.children) :
                               Holds(vin.node.expr, vin.node.domain.children[i].num))

\* \A has been evaluated over two elements with x' = v for P, which assigns x'
\* in the context of each element, and has returned one context without x'.
C17_Witness ==
    /\ vop = "evalBoundedQuantification"
    /\ vin.node.quantifier = "forall"
    /\ Len(vin.node.domain.children) = 2
    /\ vin.node.expr = Eq(Prime(VarX), Id("v"))
    /\ vin.ctx.state["x'"] = Null
    /\ Len(vout.subCtxs) = 2
    /\ \A i \in 1..2 : vout.subCtxs[i].state["x'"] # Null
    /\ Len(vout.ctxs) = 1
    /\ vout.ctxs[1].state["x'"] = Null

\* The states of the contexts with the value TRUE.
TrueStates(ctxs) == {ctxs[i].state : i \in {j \in 1..Len(ctxs) : ctxs[j].val = BoolValue(TRUE)}}

\* C18: the evaluation of an expression leaves the context it was given, as
\* the caller sees it, with the state and the value it had, and the states of
\* the TRUE branches of a disjunction do not depend on the order of the
\* disjuncts.
C18_CallerContextUnchanged ==
    (vop \in {"evalDisjList", "evalLor", "evalBoundedQuantification"} /\ ~vout.err) =>
        /\ vout.ctx = [val |-> vin.ctx.val, state |-> vin.ctx.state]
        /\ (vop # "evalBoundedQuantification" /\ ~vout.altErr) =>
              TrueStates(vout.ctxs) = TrueStates(vout.altCtxs)

\* A sub-branch assigned a state variable that the context of the parent had
\* not assigned.
AssignedInSub ==
    \E i \in 1..Len(vout.subCtxs) :
        \E k \in DOMAIN vin.ctx.state :
            vout.subCtxs[i].state[k] # Null /\ vin.ctx.state[k] = Null

\* C19: when a sub-branch of a disjunction list, of an infix disjunction or
\* of \E assigned a state variable that the parent had not assigned, the
\* construct returns the contexts of its sub-branches, all of them and as
\* they are, in the order of the disjuncts or of the elements of the domain.
C19_DisjunctionKeepsBranches ==
    (/\ vop \in {"evalDisjList", "evalLor", "evalBoundedQuantification"}
     /\ vop = "evalBoundedQuantification" => vin.node.quantifier = "exists"
     /\ ~vout.subErr
     /\ AssignedInSub) =>
        /\ ~vout.err
        /\ vout.ctxs = vout.subCtxs

\* A disjunction, or \E, has returned the contexts of two or more sub-branches
\* of which one assigned a variable, one has the value TRUE and one FALSE.
C19_Witness ==
    /\ vop \in {"evalDisjList", "evalLor", "evalBoundedQuantification"}
    /\ vop = "evalBoundedQuantification" => vin.node.quantifier = "exists"
    /\ ~vout.subErr
    /\ AssignedInSub
    /\ ~vout.err
    /\ Len(vout.ctxs) >= 2
    /\ \E i, j \in 1..Len(vout.ctxs) :
          vout.ctxs[i].val = BoolValue(TRUE) /\ vout.ctxs[j].val = BoolValue(FALSE)

\* C20: when no sub-branch assigned a state variable that the parent had not
\* assigned, the construct returns one context, with the state of the parent
\* and with the value TRUE iff the value of some sub-branch is TRUE; for \E
\* over the empty domain that is FALSE.
C20_DisjunctionMergesBranches ==
    (/\ vop \in {"evalDisjList", "evalLor", "evalBoundedQuantification"}
     /\ vop = "evalBoundedQuantification" => vin.node.quantifier = "exists"
     /\ ~vout.subErr
     /\ ~AssignedInSub) =>
        /\ ~vout.err
        /\ Len(vout.ctxs) = 1
        /\ vout.ctxs[1].val
             = BoolValue(\E i \in 1..Len(vout.subCtxs) : vout.subCtxs[i].val = BoolValue(TRUE))
        /\ vout.ctxs[1].state = vin.ctx.state

(***************************************************************************)
(* Claims about the evaluation of predicates.                              *)
(***************************************************************************)

Live(ctxs) == SelectSeq(ctxs, LAMBDA c : c.val = BoolValue(TRUE))

Dead(ctxs) == SelectSeq(ctxs, LAMBDA c : c.val = BoolValue(FALSE))

\* C22: in a conjunction, infix or list, a branch that has become FALSE is
\* returned with the state it had when it became FALSE: the later conjuncts
\* are not evaluated on it and assign nothing on it.
C22_FalseBranchKept ==
    (vop \in {"evalConjList", "evalLand"} /\ ~vout.err /\ ~vout.shortErr) =>
        Dead(vout.ctxs) = Dead(vout.shortCtxs)

\* The same for the conjunction lists alone.
C22_ListFalseBranchKept ==
    (vop = "evalConjList" /\ ~vout.shortErr) =>
        ~vout.err /\ Dead(vout.ctxs) = Dead(vout.shortCtxs)

\* C23: e' has the value that e has in the state the primed variables
\* describe, whatever construct of e a variable is nested under.
C23_PrimedScopeSurvives ==
    (vop = "evalBoundPostfix" /\ ~vout.altErr) =>
        ~vout.err /\ vout.vals = vout.altVals

\* The same for the e whose variables are not under IF/THEN/ELSE, a
\* quantifier, CHOOSE or an equality.
C23_PrimedScopeOfOperands ==
    (/\ vop = "evalBoundPostfix"
     /\ ~vout.altErr
     /\ vin.alt.type \notin {"if_then_else", "bounded_quantification", "choose",
                             "bound_infix_op"}) =>
        ~vout.err /\ vout.vals = vout.altVals

\* The value that the slot v holds in the context a conjunction is evaluated
\* on, or in every branch that its first conjunct returns; Null when the
\* slot is unassigned there or the branches differ.
Held(v) ==
    IF vin.ctx.state[v] # Null THEN vin.ctx.state[v]
    ELSE IF vout.firstErr \/ vout.firstCtxs = <<>> THEN Null
    ELSE IF \A i \in 1..Len(vout.firstCtxs) : vout.firstCtxs[i].state[v] = vout.firstCtxs[1].state[v]
    THEN vout.firstCtxs[1].state[v]
    ELSE Null

\* C24: a slot that holds a value in a branch keeps that value in every
\* branch that the rest of the predicate returns from it.
C24_WriteOnce ==
    (vop \in {"evalConjList", "evalLand"} /\ ~vout.err) =>
        \A v \in {"x'", "y'"} :
            Held(v) # Null => \A i \in 1..Len(vout.ctxs) : vout.ctxs[i].state[v] = Held(v)

HasUnchanged(conjs) == \E i \in 1..Len(conjs) : conjs[i] = Prefix("unchanged", VarX)

\* The same for the predicates without UNCHANGED.
C24_WriteOnceByEquality ==
    (vop \in {"evalConjList", "evalLand"} /\ ~vout.err /\ ~HasUnchanged(Conjuncts(vin.node))) =>
        \A v \in {"x'", "y'"} :
            Held(v) # Null => \A i \in 1..Len(vout.ctxs) : vout.ctxs[i].state[v] = Held(v)

(***************************************************************************)
(* Claims about the fingerprints of values of different kinds (checked     *)
(* under SpecValue).                                                       *)
(***************************************************************************)

\* C25: a set never has the fingerprint of a tuple, function or record, and
\* the states x = a and x = b, for a set a and a tuple, function or record b,
\* never have the same fingerprint.
C25_KindsNeverCollide ==
    vop = "fingerprintKinds" =>
        /\ vout.fpA # vout.fpB
        /\ vout.stateFpA # vout.stateFpB

\* The same for the non-empty sets of integers, strings and booleans.
C25_FlatSetsNeverCollide ==
    (vop = "fingerprintKinds" /\ vin.a.elems # <<>>
        /\ \A i \in 1..Len(vin.a.elems) : vin.a.elems[i].kind \in {"int", "str", "bool"}) =>
        /\ vout.fpA # vout.fpB
        /\ vout.stateFpA # vout.stateFpB

(***************************************************************************)
(* Claims about the rewriter (checked under SpecRewrite).                  *)
(***************************************************************************)

\* The identifiers that the bounds of a quantifier bind.
NumBound(node) ==
    LET n(v) == IF v.type = "tuple_of_identifiers" THEN Len(v.names) ELSE 1
        RECURSIVE sum(_)
        sum(vs) == IF vs = <<>> THEN 0 ELSE n(Head(vs)) + sum(Tail(vs))
    IN  sum(Concat([i \in 1..Len(node.bounds) |-> node.bounds[i].vars]))

\* No comment, no infix \in or \notin, and no quantifier with more than one
\* bound or more than one identifier, in the tree.
RECURSIVE Rewritten(_)
Rewritten(node) ==
    /\ node.type \notin {"comment", "block_comment"}
    /\ node.type = "bound_infix_op" => node.symbol \notin {"in", "notin"}
    /\ node.type = "bounded_quantification" => Len(node.bounds) = 1 /\ NumBound(node) = 1
    /\ \A i \in 1..Len(walked(node)) : Rewritten(walked(node)[i])

RECURSIVE HasError(_)
HasError(node) ==
    node.type = "ERROR" \/ \E i \in 1..Len(walked(node)) : HasError(walked(node)[i])

\* C26: on a module without an error node, doRewrites returns, and the text
\* it returns has no comment, no infix \in or \notin and no quantifier that
\* has more than one bound or binds more than one identifier.
C26_RewriterTerminatesNormalized ==
    ~HasError(vin.origSpecText) =>
        <>[](vop = "return" /\ Rewritten(vout.specTextRewritten))

\* doRewrites ends, by a return or by the parsing error.
C26_RewriterTerminates == <>(vop \in {"return", "throw"})

HasTupleBound(node) ==
    \E i \in 1..Len(node.bounds) : \E j \in 1..Len(node.bounds[i].vars) :
        node.bounds[i].vars[j].type = "tuple_of_identifiers"

RECURSIVE HasTuple(_)
HasTuple(node) ==
    \/ node.type = "bounded_quantification" /\ HasTupleBound(node)
    \/ \E i \in 1..Len(walked(node)) : HasTuple(walked(node)[i])

\* The same on the modules whose quantifiers bind identifiers only, not
\* tuples of identifiers.
C26_IdentifierBoundsNormalized ==
    (~HasError(vin.origSpecText) /\ ~HasTuple(vin.origSpecText)) =>
        <>[](vop = "return" /\ Rewritten(vout.specTextRewritten))

(***************************************************************************)
(* Claims about computeReachableStates (checked under SpecReach and        *)
(* SpecReachFair).                                                         *)
(***************************************************************************)

\* C27: every state recorded as reachable is an initial state or the target
\* of an edge from a recorded state; every edge starts at a recorded state;
\* and the edges from a recorded state are, in order, one for each successor
\* that computeNextStates produces from it.
C27_StatesAndEdgesAreSteps ==
    pc \in {"loop", "done"} =>
        /\ \A k \in 1..Len(reachableStates) :
              \/ reachableStates[k] \in Range(initStatesOrig)
              \/ \E e \in 1..Len(edges) :
                    edges[e][2] = reachableStates[k] /\ edges[e][1] \in Range(reachableStates)
        /\ \A e \in 1..Len(edges) : edges[e][1] \in Range(reachableStates)
        /\ \A k \in 1..Len(reachableStates) :
              LET from(e) == e[1] = reachableStates[k]
                  recorded(next) ==
                      /\ ~next.err
                      /\ SelectSeq(edges, from)
                            = [i \in 1..Len(next.ctxs) |->
                                  <<reachableStates[k], deprimeVars(next.ctxs[i].state)>>]
              IN  recorded(computeNextStates(vin.treeObjs, vin.constvals,
                                             <<reachableStates[k]>>))

\* computeReachableStates has returned a state that is not initial, and more
\* edges than states.
C27_Witness ==
    /\ pc = "done"
    /\ \E k \in 1..Len(reachableStates) : reachableStates[k] \notin Range(initStatesOrig)
    /\ Len(edges) > Len(reachableStates)

\* C28: on a module whose reachable states are finitely many,
\* computeReachableStates ends: unless an evaluation throws, the call returns
\* with its work queue empty.
C28_QueueEventuallyEmpty ==
    <>(pc = "error" \/ (pc = "done" /\ stateQueue = <<>>))

\* computeReachableStates has returned with the queue empty on a module
\* whose state graph has a cycle: a recorded state is its own successor.
C28_Witness ==
    /\ pc = "done"
    /\ stateQueue = <<>>
    /\ \E e \in 1..Len(edges) : edges[e][1] = edges[e][2]

(***************************************************************************)
(* Claims about the trace explorer (checked under SpecTrace).              *)
(***************************************************************************)
\* The trace is a path of the module: it starts in an initial state and each
\* later state is a next state of the one before it.
IsPath(currTrace) ==
    /\ Len(currTrace) > 0 =>
          LET initial(initStates) == ~initStates.err /\ currTrace[1] \in Range(initStates.states)
          IN  initial(computeInitStates(vin.treeObjs, vin.constvals))
    /\ \A i \in 2..Len(currTrace) :
          LET step(nextStates) == ~nextStates.err /\ currTrace[i] \in Range(nextStates.states)
          IN  step(nextStatesOf(vin.treeObjs, vin.constvals, currTrace[i - 1]))

\* C29: after any chooseNextState, traceStepBack and reset, the current
\* trace is a path of the module, also after a chooseNextState whose
\* computation of the next states raised an error.
C29_TraceIsPath == IsPath(vout.model.currTrace)

\* While no error has been raised since the last reset, the current trace is
\* a path of the module.
C29_TraceIsPathUntilError == vout.model.errorObj = Null => IsPath(vout.model.currTrace)

\* The hash is the hash of a state of the trace.
InTrace(currTrace, hash) == \E i \in 1..Len(currTrace) : hashSum(currTrace[i]) = hash

C30_WitnessStepBack ==
    /\ vop = "traceStepBack"
    /\ vout.statehash_short # Null
    /\ vout.model.lassoTo = Null
    /\ InTrace(vout.model.currTrace, vout.statehash_short)
    /\ Len(vout.model.currTrace) >= 2
    /\ vout.model.currTrace[Len(vout.model.currTrace)] \notin Range(vout.model.currNextStates)

====
